---- MODULE Spec2Model ----
(***************************************************************************)
(* A model of rusty_man_computer: the Value domain (src/src/lib.rs, mod    *)
(* value), the Output buffer, the Computer's fetch-decode-execute cycle    *)
(* and loader, and the assembler (src/src/assembler.rs).                   *)
(*                                                                         *)
(* A Rust panic is modelled as an outcome: an operator that can panic      *)
(* returns a record whose field "panic" holds the panic message ("" when   *)
(* it returned normally).  A Result is a record [ok, val].                 *)
(*                                                                         *)
(* Arithmetic on i16 depends on the build: with overflow checks (debug)    *)
(* an overflowing + or - panics, without them (release) it wraps modulo    *)
(* 2^16.  Every operator that does i16 arithmetic takes the build's        *)
(* setting as its parameter "checks", and every action draws it from       *)
(* BOOLEAN.                                                                *)
(***************************************************************************)
EXTENDS Integers, Sequences, FiniteSets, TLC

VARIABLES
    ram,                  \* Computer.ram: [Value; 100], indexed 0..99
    program_counter,      \* Registers.program_counter: usize
    instruction_register, \* Registers.instruction_register: i8
    address_register,     \* Registers.address_register: usize
    accumulator,          \* Registers.accumulator: Value
    buffer,               \* Output.buffer: String, as a sequence of char codes
    input,                \* ComputerConfig.input: Some(Vec<Value>), the values left
    status,               \* "new" | "running" | "halted" | "panicked"
    fault,                \* the panic message when status = "panicked", else ""
    script,               \* history: the input queue the Computer was built with
    cycles,               \* history: clock cycles started so far
    inp_count,            \* history: INP instructions executed without panic
    touched,              \* what load_data_to_ram returned (0 before it is called)
    call,                 \* the last call of a function and what it returned
    emitted               \* history: the push_int / push_char calls on an Output

vars == <<ram, program_counter, instruction_register, address_register,
          accumulator, buffer, input, status, fault, script, cycles,
          inp_count, touched, call, emitted>>

machine_vars == <<ram, program_counter, instruction_register, address_register,
                  accumulator, buffer, input, status, fault, script, cycles,
                  inp_count, touched, emitted>>

\* Every variable but the Output's buffer and the two histories of calls.
beside_output == <<ram, program_counter, instruction_register,
                   address_register, accumulator, input, status, fault,
                   script, cycles, inp_count, touched>>

----------------------------------------------------------------------------
(* i16 arithmetic *)

I16_MIN == -32768
I16_MAX == 32767

\* The two's-complement i16 that an out-of-range result wraps to.
wrap_i16(x) == ((x + 32768) % 65536) - 32768

\* a + b on i16: [overflow |-> TRUE] is the debug build's panic.
add_i16(a, b, checks) ==
    LET r == a + b
    IN  IF r >= I16_MIN /\ r <= I16_MAX THEN [overflow |-> FALSE, val |-> r]
        ELSE IF checks THEN [overflow |-> TRUE, val |-> 0]
        ELSE [overflow |-> FALSE, val |-> wrap_i16(r)]

\* a - b on i16.
sub_i16(a, b, checks) ==
    LET r == a - b
    IN  IF r >= I16_MIN /\ r <= I16_MAX THEN [overflow |-> FALSE, val |-> r]
        ELSE IF checks THEN [overflow |-> TRUE, val |-> 0]
        ELSE [overflow |-> FALSE, val |-> wrap_i16(r)]

\* (byte as i16) << 8: the bits shifted out are dropped in every build.
shl8_i16(x) == wrap_i16(x * 256)

\* Rust's / and % on integers truncate toward zero.
div_trunc(a, b) == IF a >= 0 THEN a \div b ELSE -((-a) \div b)
rem_trunc(a, b) == a - b * div_trunc(a, b)

----------------------------------------------------------------------------
(* mod value *)

Value_MIN == -999
Value_MAX == 999

Ok(v) == [ok |-> TRUE, val |-> v]
Err == [ok |-> FALSE, val |-> 0]

\* Err(message), of a Result<Value, &'static str>
ErrMsg(message) == [ok |-> FALSE, val |-> 0, error |-> message]

Returned(v) == [panic |-> "", val |-> v]
Panicked(msg) == [panic |-> msg, val |-> 0]

\* A mutant of Value_new: both bounds are excluded.
Value_new_exclusive(value) ==
    IF value <= -999 \/ value >= 999 THEN Err ELSE Ok(value)

\* Value::new
Value_new(value) ==
    IF value < -999 \/ value > 999 THEN Err ELSE Ok(value)

\* Result::expect / Result::unwrap on a Result<Value, _>
expect(result, msg) ==
    IF result.ok THEN Returned(result.val) ELSE Panicked(msg)

\* A mutant of wrap_overflow: the overflow is added to MIN and MAX themselves,
\* so a sum one past a bound lands one short of the other bound.
wrap_overflow_off_by_one(value, checks) ==
    IF value > Value_MAX THEN Returned(Value_MIN + (value - Value_MAX))
    ELSE IF value < Value_MIN THEN Returned(Value_MAX + (value + Value_MAX))
    ELSE Returned(value)

\* Value::wrap_overflow
wrap_overflow(value, checks) ==
    LET positive_overflow == sub_i16(value, Value_MAX, checks)
        negative_overflow == add_i16(value, Value_MAX, checks)
    IN  IF positive_overflow.overflow
        THEN Panicked("attempt to subtract with overflow")
        ELSE IF positive_overflow.val > 0
        THEN LET sum == add_i16(Value_MIN - 1, positive_overflow.val, checks)
             IN  IF sum.overflow THEN Panicked("attempt to add with overflow")
                 ELSE expect(Value_new(sum.val),
                             "Out of bounds after overflow handling")
        ELSE IF negative_overflow.overflow
        THEN Panicked("attempt to add with overflow")
        ELSE IF negative_overflow.val < 0
        THEN LET sum == add_i16(Value_MAX + 1, negative_overflow.val, checks)
             IN  IF sum.overflow THEN Panicked("attempt to add with overflow")
                 ELSE expect(Value_new(sum.val),
                             "Out of bounds after overflow handling")
        ELSE expect(Value_new(value), "Out of bounds after overflow handling")

\* Value::zero
zero == 0

\* A mutant of from_digits: the range of the last two digits includes 100.
from_digits_loose(first_digit_, last_two_digits_) ==
    IF ~(first_digit_ \in 0..9) THEN ErrMsg("First digit out of range")
    ELSE IF ~(last_two_digits_ \in 0..100)
    THEN ErrMsg("Last two digits out of range")
    ELSE IF ~Value_new(first_digit_ * 100 + last_two_digits_).ok
    THEN ErrMsg("Value out of range")
    ELSE Ok(first_digit_ * 100 + last_two_digits_)

\* A mutant of from_digits: the last two digits are reduced modulo 100
\* and not checked.
from_digits_modulo(first_digit_, last_two_digits_) ==
    IF first_digit_ < 0 \/ first_digit_ > 9
    THEN ErrMsg("First digit out of range")
    ELSE Ok(first_digit_ * 100 + (last_two_digits_ % 100))

\* Value::from_digits
from_digits(first_digit_, last_two_digits_) ==
    IF ~(first_digit_ \in 0..9) THEN ErrMsg("First digit out of range")
    ELSE IF ~(last_two_digits_ \in 0..99)
    THEN ErrMsg("Last two digits out of range")
    ELSE IF ~Value_new(first_digit_ * 100 + last_two_digits_).ok
    THEN ErrMsg("Value out of range")
    ELSE Ok(first_digit_ * 100 + last_two_digits_)

\* A mutant of first_digit: the division rounds down, not toward zero.
first_digit_floor(v) == v \div 100

\* Value::first_digit
first_digit(v) == div_trunc(v, 100)

\* A mutant of last_two_digits: the last digit only.
last_two_digits_one_digit(v) == rem_trunc(v, 10)

\* Value::last_two_digits
last_two_digits(v) == rem_trunc(v, 100)

\* Value::is_zero
is_zero(v) == v = 0

\* A mutant of is_non_negative: zero does not count (is_positive).
is_non_negative_strict(v) == v > 0

\* Value::is_non_negative
is_non_negative(v) == v >= 0

\* A mutant of add_assign: the sum is stored as it is, without wrapping.
add_assign_unwrapped(self, other, checks) == Returned(self + other)

\* A mutant of add_assign: the sum saturates at the bounds.
add_assign_saturating(self, other, checks) ==
    LET sum == self + other
    IN  Returned(IF sum > Value_MAX THEN Value_MAX
                 ELSE IF sum < Value_MIN THEN Value_MIN ELSE sum)

\* impl AddAssign for Value
add_assign(self, other, checks) ==
    LET sum == add_i16(self, other, checks)
    IN  IF sum.overflow THEN Panicked("attempt to add with overflow")
        ELSE wrap_overflow(sum.val, checks)

\* A mutant of sub_assign: the difference is not wrapped.
sub_assign_unwrapped(self, other, checks) == Returned(self - other)

\* impl SubAssign for Value
sub_assign(self, other, checks) ==
    LET difference == sub_i16(self, other, checks)
    IN  IF difference.overflow THEN Panicked("attempt to subtract with overflow")
        ELSE wrap_overflow(difference.val, checks)

\* Value::to_be_bytes: the two bytes of the i16, high byte first.
to_be_bytes(v) ==
    LET u == (v + 65536) % 65536
    IN  <<u \div 256, u % 256>>

\* A mutant of to_char: the value is clamped to 0..255, not truncated.
to_char_clamped(v) == IF v < 0 THEN 0 ELSE IF v > 255 THEN 255 ELSE v

\* impl From<Value> for char: value.0 as u8 as char
to_char(v) == ((v % 256) + 256) % 256

----------------------------------------------------------------------------
(* struct Output *)

LINE_FEED == 10
SPACE == 32
MINUS == 45
DIGIT_ZERO == 48

\* char::is_numeric on the characters a buffer can hold (codes 0..255): the
\* decimal digits, and the Latin-1 superscripts and fractions.
is_numeric(c) == c \in (48..57) \cup {178, 179, 185, 188, 189, 190}

\* The decimal digits of a natural number, as char codes.
RECURSIVE digits(_)
digits(n) ==
    IF n < 10 THEN <<DIGIT_ZERO + n>>
    ELSE Append(digits(n \div 10), DIGIT_ZERO + (n % 10))

\* A mutant of to_string: the sign is not written.
to_string_unsigned(v) == IF v < 0 THEN digits(-v) ELSE digits(v)

\* Value::to_string: i16's decimal text.
to_string(v) == IF v < 0 THEN <<MINUS>> \o digits(-v) ELSE digits(v)

\* A mutant of push_char: a character that follows a numeric one is put on
\* a new line, as push_int does for a number.
push_char_separated(buf, character) ==
    IF Len(buf) > 0 /\ is_numeric(buf[Len(buf)])
    THEN buf \o <<LINE_FEED, character>>
    ELSE Append(buf, character)

\* Output::push_char
push_char(buf, character) == Append(buf, character)

\* A mutant of push_int: the text replaces what the buffer held.
push_int_replacing(buf, integer) == to_string(integer)

\* A mutant of push_int: the text is appended with no separator.
push_int_unseparated(buf, integer) == buf \o to_string(integer)

\* Output::push_int
push_int(buf, integer) ==
    LET last == IF Len(buf) = 0 THEN SPACE ELSE buf[Len(buf)]
        last_digit_was_number == is_numeric(last)
        separated == IF last_digit_was_number THEN push_char(buf, LINE_FEED)
                     ELSE buf
    IN  separated \o to_string(integer)

\* The loop of split_into_lines, from the i-th character of the buffer on:
\* lines is the Vec built so far, its last element the current row.
RECURSIVE split_from(_, _, _, _, _)
split_from(chars, i, lines, row_length, max_line_length) ==
    IF i > Len(chars) THEN lines
    ELSE
        LET char == chars[i]
        IN  IF char = LINE_FEED
            THEN split_from(chars, i + 1, Append(lines, <<>>), 0,
                            max_line_length)
            ELSE
                LET full == row_length >= max_line_length
                    rows == IF full THEN Append(lines, <<>>) ELSE lines
                    length == IF full THEN 0 ELSE row_length
                IN  split_from(chars, i + 1,
                               [rows EXCEPT ![Len(rows)] = Append(@, char)],
                               length + 1, max_line_length)

\* A mutant of split_into_lines: a row is closed one character late.
split_into_lines_late(buf, max_line_length) ==
    split_from(buf, 1, <<<<>>>>, 0, max_line_length + 1)

\* Output::split_into_lines
split_into_lines(buf, max_line_length) ==
    split_from(buf, 1, <<<<>>>>, 0, max_line_length)

\* Output::print_on_one_line: the rows that are printed.
LINE_WIDTH == 4
print_on_one_line(buf) == split_into_lines(buf, LINE_WIDTH)

\* Output::read_all
read_all(buf) == buf

----------------------------------------------------------------------------
(* struct Computer *)

RAM_LEN == 100

\* usize::MAX.  usize has 64 bits on the targets the program builds for and
\* TLC's integers have 32: the model gives usize 31 bits.
USIZE_MAX == 2147483647

\* "as usize" of an i16: a negative i16 sign-extends, to usize::MAX + 1 + v,
\* a value far above every RAM index.
as_usize(v) == IF v >= 0 THEN v ELSE (USIZE_MAX + v) + 1

\* The bounds check of ram[index], index a usize.
in_bounds(index) == index < RAM_LEN

\* i16 -> i8 try_into
try_into_i8(v) == IF v >= -128 /\ v <= 127 THEN Ok(v) ELSE Err

\* Computer::new: the registers and RAM of a fresh Computer.
new(config_input) ==
    [ram |-> [a \in 0..(RAM_LEN - 1) |-> zero],
     program_counter |-> 0,
     instruction_register |-> 0,
     address_register |-> 0,
     accumulator |-> zero,
     buffer |-> <<>>,
     input |-> config_input]

\* The body of load_data_to_ram's loop for the byte of index i, on what the
\* iterations before it left: the cells, the count, and the panic if one of
\* them panicked (nothing runs after a panic).
load_byte(loaded, data_bytes, i, checks) ==
    LET cells == loaded.ram
        byte == data_bytes[i + 1]
        target_address == i \div 2
    IN  IF loaded.panic # "" THEN loaded
        ELSE IF i % 2 = 0
        THEN LET high == expect(Value_new(shl8_i16(byte)),
                                "called Result::unwrap() on an Err value")
             IN  IF high.panic # ""
                 THEN [loaded EXCEPT !.panic = high.panic]
                 ELSE [ram |-> [cells EXCEPT ![target_address] = high.val],
                       touched_addresses |-> loaded.touched_addresses + 1,
                       panic |-> ""]
        ELSE LET low == expect(Value_new(byte),
                               "called Result::unwrap() on an Err value")
                 sum == IF low.panic # "" THEN low
                        ELSE add_assign(cells[target_address], low.val, checks)
             IN  IF sum.panic # ""
                 THEN [loaded EXCEPT !.panic = sum.panic]
                 ELSE [loaded EXCEPT !.ram[target_address] = sum.val]

\* The iterations of load_data_to_ram's loop for the bytes of index lo to
\* hi - 1, in order: those of the first half of the range, then those of the
\* second on what the first left.
RECURSIVE load_from(_, _, _, _, _)
load_from(loaded, data_bytes, lo, hi, checks) ==
    IF lo >= hi THEN loaded
    ELSE IF hi = lo + 1 THEN load_byte(loaded, data_bytes, lo, checks)
    ELSE LET mid == (lo + hi) \div 2
             first == load_from(loaded, data_bytes, lo, mid, checks)
         IN  IF first.panic # "" THEN first
             ELSE load_from(first, data_bytes, mid, hi, checks)

\* Computer::load_data_to_ram: the loop ends with the bytes, or breaks at the
\* byte of index ram.len() * 2.
load_data_to_ram(cells, data_bytes, checks) ==
    load_from([ram |-> cells, touched_addresses |-> 0, panic |-> ""],
              data_bytes, 0,
              IF Len(data_bytes) < RAM_LEN * 2 THEN Len(data_bytes)
              ELSE RAM_LEN * 2,
              checks)

\* A mutant of get_input: the value is taken from the back (Vec::pop).
get_input_from_back(queue) ==
    IF Len(queue) = 0
    THEN [panic |-> "No more input values available", val |-> 0, input |-> queue]
    ELSE [panic |-> "", val |-> queue[Len(queue)],
          input |-> SubSeq(queue, 1, Len(queue) - 1)]

\* A mutant of get_input: an empty queue gives zero, as a failed read of the
\* terminal does.
get_input_zero_when_empty(queue) ==
    IF Len(queue) = 0
    THEN [panic |-> "", val |-> zero, input |-> queue]
    ELSE [panic |-> "", val |-> Head(queue), input |-> Tail(queue)]

\* Computer::get_input, for a scripted input (config.input is Some)
get_input(queue) ==
    IF Len(queue) = 0
    THEN [panic |-> "No more input values available", val |-> 0, input |-> queue]
    ELSE [panic |-> "", val |-> Head(queue), input |-> Tail(queue)]

\* The outcome of a step of the cycle: the Computer as the step left it, the
\* bool returned (continue), and the panic message if it panicked.
Outcome(self, continue, panic) ==
    [self |-> self, continue |-> continue, panic |-> panic]

\* self.ram[self.registers.address_register]: the indexing panics out of RAM.
OutOfBounds(self) == Outcome(self, FALSE, "index out of bounds")

\* A mutant of hlt: the arm falls through to the final true.
hlt_continues(self) == Outcome(self, TRUE, "")

\* execute_instruction, arm 0: HLT
hlt(self) == Outcome(self, FALSE, "")

\* execute_instruction, arm 1: ADD
add(self, checks) ==
    IF ~in_bounds(self.address_register) THEN OutOfBounds(self)
    ELSE LET r == add_assign(self.accumulator, self.ram[self.address_register],
                             checks)
         IN  IF r.panic # "" THEN Outcome(self, FALSE, r.panic)
             ELSE Outcome([self EXCEPT !.accumulator = r.val], TRUE, "")

\* execute_instruction, arm 2: SUB
sub(self, checks) ==
    IF ~in_bounds(self.address_register) THEN OutOfBounds(self)
    ELSE LET r == sub_assign(self.accumulator, self.ram[self.address_register],
                             checks)
         IN  IF r.panic # "" THEN Outcome(self, FALSE, r.panic)
             ELSE Outcome([self EXCEPT !.accumulator = r.val], TRUE, "")

\* A mutant of sta: the transfer goes the wrong way (LDA's).
sta_loads(self) ==
    IF ~in_bounds(self.address_register) THEN OutOfBounds(self)
    ELSE Outcome([self EXCEPT !.accumulator = self.ram[self.address_register]],
                 TRUE, "")

\* A mutant of sta: the accumulator is stored in the cell after the one
\* addressed (cell 0 after cell 99).
sta_next_cell(self) ==
    IF ~in_bounds(self.address_register) THEN OutOfBounds(self)
    ELSE Outcome([self EXCEPT
                     !.ram[(self.address_register + 1) % RAM_LEN] =
                         self.accumulator],
                 TRUE, "")

\* execute_instruction, arm 3: STA
sta(self) ==
    IF ~in_bounds(self.address_register) THEN OutOfBounds(self)
    ELSE Outcome([self EXCEPT !.ram[self.address_register] = self.accumulator],
                 TRUE, "")

\* A mutant of opcode_4: the unused opcode is skipped and the run goes on.
opcode_4_skipped(self) == Outcome(self, TRUE, "")

\* execute_instruction, arm 4: the unused opcode
opcode_4(self) == Outcome(self, FALSE, "Opcode 4 is not allowed!")

\* execute_instruction, arm 5: LDA
lda(self) ==
    IF ~in_bounds(self.address_register) THEN OutOfBounds(self)
    ELSE Outcome([self EXCEPT !.accumulator = self.ram[self.address_register]],
                 TRUE, "")

\* A mutant of bra: the branch is taken and the cycle returns false.
bra_stops(self) ==
    Outcome([self EXCEPT !.program_counter = self.address_register], FALSE, "")

\* execute_instruction, arm 6: BRA
bra(self) ==
    Outcome([self EXCEPT !.program_counter = self.address_register], TRUE, "")

\* execute_instruction, arm 7: BRZ
brz(self) ==
    IF is_zero(self.accumulator)
    THEN Outcome([self EXCEPT !.program_counter = self.address_register], TRUE, "")
    ELSE Outcome(self, TRUE, "")

\* execute_instruction, arm 8: BRP
brp(self) ==
    IF is_non_negative(self.accumulator)
    THEN Outcome([self EXCEPT !.program_counter = self.address_register], TRUE, "")
    ELSE Outcome(self, TRUE, "")

\* A mutant of input_output: every address but INP's and OTC's prints the
\* accumulator, as OUT does.
input_output_out_by_default(self) ==
    LET ar == self.address_register
        got == IF ar = 1 THEN get_input(self.input)
               ELSE [panic |-> "", val |-> self.accumulator, input |-> self.input]
        s1 == [self EXCEPT !.accumulator = got.val, !.input = got.input]
        s2 == IF ar # 1 /\ ar # 22
              THEN [s1 EXCEPT !.buffer = push_int(s1.buffer, s1.accumulator)]
              ELSE s1
        s3 == IF ar = 22
              THEN [s2 EXCEPT !.buffer =
                        push_char(s2.buffer, to_char(s2.accumulator))]
              ELSE s2
    IN  IF got.panic # "" THEN Outcome(self, FALSE, got.panic)
        ELSE Outcome(s3, TRUE, "")

\* execute_instruction, arm 9: INP (address 1), OUT (2), OTC (22); three ifs in
\* a row, of which at most one holds.
input_output(self) ==
    LET ar == self.address_register
        got == IF ar = 1 THEN get_input(self.input)
               ELSE [panic |-> "", val |-> self.accumulator, input |-> self.input]
        s1 == [self EXCEPT !.accumulator = got.val, !.input = got.input]
        s2 == IF ar = 2
              THEN [s1 EXCEPT !.buffer = push_int(s1.buffer, s1.accumulator)]
              ELSE s1
        s3 == IF ar = 22
              THEN [s2 EXCEPT !.buffer =
                        push_char(s2.buffer, to_char(s2.accumulator))]
              ELSE s2
    IN  IF got.panic # "" THEN Outcome(self, FALSE, got.panic)
        ELSE Outcome(s3, TRUE, "")

\* execute_instruction, the default arm
unhandled_opcode(self) == Outcome(self, FALSE, "Unhandled opcode")

\* Computer::execute_instruction
execute_instruction(self, checks) ==
    LET ir == self.instruction_register
    IN  CASE ir = 0 -> hlt(self)
          [] ir = 1 -> add(self, checks)
          [] ir = 2 -> sub(self, checks)
          [] ir = 3 -> sta(self)
          [] ir = 4 -> opcode_4(self)
          [] ir = 5 -> lda(self)
          [] ir = 6 -> bra(self)
          [] ir = 7 -> brz(self)
          [] ir = 8 -> brp(self)
          [] ir = 9 -> input_output(self)
          [] OTHER -> unhandled_opcode(self)

\* A mutant of clock_cycle: the fetch wraps around RAM, so a program counter
\* of 100 fetches cell 0.
clock_cycle_wrapping(self, checks) ==
    LET ram_index == self.program_counter % RAM_LEN
        fetched == [self EXCEPT !.program_counter = self.program_counter + 1]
        instruction == self.ram[ram_index]
        instruction_code == first_digit(instruction)
        instruction_address == last_two_digits(instruction)
        code == try_into_i8(instruction_code)
        decoded == [fetched EXCEPT
                       !.instruction_register = code.val,
                       !.address_register = as_usize(instruction_address)]
    IN  IF ~code.ok THEN Outcome(fetched, FALSE, "Opcode out of range")
        ELSE execute_instruction(decoded, checks)

\* Computer::clock_cycle
clock_cycle(self, checks) ==
    LET ram_index == self.program_counter
        fetched == [self EXCEPT !.program_counter = ram_index + 1]
    IN  IF ~in_bounds(ram_index)
        THEN Outcome(fetched, FALSE, "index out of bounds")
        ELSE
            LET instruction == self.ram[ram_index]
                instruction_code == first_digit(instruction)
                instruction_address == last_two_digits(instruction)
                code == try_into_i8(instruction_code)
                decoded == [fetched EXCEPT
                               !.instruction_register = code.val,
                               !.address_register = as_usize(instruction_address)]
            IN  IF ~code.ok THEN Outcome(fetched, FALSE, "Opcode out of range")
                ELSE execute_instruction(decoded, checks)

----------------------------------------------------------------------------
(* The machine: a Computer is built with a scripted input, a memory image  *)
(* is loaded, and run() executes clock cycles until one returns false or   *)
(* panics.                                                                 *)

\* The longest memory image loaded, in words, and the most clock cycles run.
MaxProg == 3
MaxCycles == 7

\* The words of the memory images: HLT, a data word, ADD 2, SUB 2, STA 99,
\* LDA 2, BRA 99, BRZ 2, BRP 0, INP, OUT, OTC, an undefined 9xx, the unused
\* opcode 4, and two negative words (the second one's bytes do not load).
Words == {0, 1, 102, 202, 399, 502, 699, 702, 800, 901, 902, 922, 900, 400,
          -100, -999}

\* The scripted inputs a Computer is built with.
ScriptedInputs == {<<>>, <<-1, 321>>, <<999, -1, 5>>}

Programs == UNION {[1..n -> Words] : n \in 0..MaxProg}

\* The memory dump of a sequence of words: each word's two bytes, in order.
RECURSIVE dump(_)
dump(words) ==
    IF Len(words) = 0 THEN <<>>
    ELSE to_be_bytes(Head(words)) \o dump(Tail(words))

NoCall == [fn |-> "none", args |-> <<>>, checks |-> FALSE, ok |-> TRUE,
           panic |-> "", val |-> 0]

\* The Computer the variables hold.
Self ==
    [ram |-> ram,
     program_counter |-> program_counter,
     instruction_register |-> instruction_register,
     address_register |-> address_register,
     accumulator |-> accumulator,
     buffer |-> buffer,
     input |-> input]

\* The variables hold the Computer c.
Becomes(c) ==
    /\ ram' = c.ram
    /\ program_counter' = c.program_counter
    /\ instruction_register' = c.instruction_register
    /\ address_register' = c.address_register
    /\ accumulator' = c.accumulator
    /\ buffer' = c.buffer
    /\ input' = c.input

\* The variables hold the Computer c (as an initial condition).
Holds(c) ==
    /\ ram = c.ram
    /\ program_counter = c.program_counter
    /\ instruction_register = c.instruction_register
    /\ address_register = c.address_register
    /\ accumulator = c.accumulator
    /\ buffer = c.buffer
    /\ input = c.input

\* Computer::new(config), config.input = Some(q)
InitMachine(queues) ==
    /\ \E q \in queues :
          /\ Holds(new(q))
          /\ script = q
    /\ status = "new"
    /\ fault = ""
    /\ cycles = 0
    /\ inp_count = 0
    /\ touched = 0
    /\ emitted = <<>>

Init ==
    /\ InitMachine(ScriptedInputs)
    /\ call = NoCall

\* The word a clock cycle started now fetches (0 when the fetch is out of RAM).
Fetched == IF in_bounds(program_counter) THEN ram[program_counter] ELSE 0

\* load_data_to_ram(data) on the fresh Computer.
LoadDataToRam ==
    /\ status = "new"
    /\ \E words \in Programs, checks \in BOOLEAN :
          \E r \in {load_data_to_ram(ram, dump(words), checks)} :
              /\ ram' = r.ram
              /\ touched' = r.touched_addresses
              /\ fault' = r.panic
              /\ status' = IF r.panic = "" THEN "running" ELSE "panicked"
    /\ UNCHANGED <<program_counter, instruction_register, address_register,
                   accumulator, buffer, input, script, cycles, inp_count, call,
                   emitted>>

\* One iteration of run()'s loop: a clock cycle, and the loop's test of what it
\* returned.
ClockCycle ==
    /\ status = "running"
    /\ cycles < MaxCycles
    /\ \E checks \in BOOLEAN :
          \E r \in {clock_cycle(Self, checks)} :
              /\ Becomes(r.self)
              /\ fault' = r.panic
              /\ status' = IF r.panic # "" THEN "panicked"
                           ELSE IF r.continue THEN "running" ELSE "halted"
              /\ inp_count' = IF r.panic = "" /\ in_bounds(program_counter)
                                 /\ Fetched = 901
                              THEN inp_count + 1 ELSE inp_count
    /\ cycles' = cycles + 1
    /\ UNCHANGED <<script, touched, call, emitted>>

Next == LoadDataToRam \/ ClockCycle

Spec == Init /\ [][Next]_vars

----------------------------------------------------------------------------
(* The Value functions: one call of one of them, on arguments drawn from   *)
(* its domain.                                                             *)

I16 == I16_MIN..I16_MAX

\* The arguments from_digits is called with: both sub-ranges, what lies just
\* outside them, and the ends of i16.
FirstDigitArgs == ((-2)..11) \cup {I16_MIN, I16_MAX}
LastTwoDigitsArgs == ((-2)..101) \cup {I16_MIN, I16_MAX}

InitValue ==
    /\ InitMachine({<<>>})
    /\ call = NoCall

CallValueNew ==
    /\ call = NoCall
    /\ \E i \in I16 :
          LET r == Value_new(i)
          IN  call' = [fn |-> "new", args |-> <<i>>, checks |-> FALSE,
                       ok |-> r.ok, panic |-> "", val |-> r.val]
    /\ UNCHANGED machine_vars

CallWrapOverflow ==
    /\ call = NoCall
    /\ \E v \in I16, checks \in BOOLEAN :
          LET r == wrap_overflow(v, checks)
          IN  call' = [fn |-> "wrap_overflow", args |-> <<v>>, checks |-> checks,
                       ok |-> r.panic = "", panic |-> r.panic, val |-> r.val]
    /\ UNCHANGED machine_vars

CallFromDigits ==
    /\ call = NoCall
    /\ \E d \in FirstDigitArgs, a \in LastTwoDigitsArgs :
          LET r == from_digits(d, a)
          IN  call' = [fn |-> "from_digits", args |-> <<d, a>>, checks |-> FALSE,
                       ok |-> r.ok, panic |-> "", val |-> r.val]
    /\ UNCHANGED machine_vars

\* The Values added and subtracted: the ends of the range, the values next
\* to them and to zero, and some between.
Addends == {-999, -998, -500, -1, 0, 1, 2, 500, 998, 999}

\* a += b and then a -= b, for a Value a; call records a, b, what a is after
\* the first and after the second.
CallAddThenSub ==
    /\ call = NoCall
    /\ \E a \in Value_MIN..Value_MAX, b \in Addends, checks \in BOOLEAN :
          \E first \in {add_assign(a, b, checks)} :
              \E second \in {IF first.panic # "" THEN first
                              ELSE sub_assign(first.val, b, checks)} :
                  call' = [fn |-> "add_then_sub", args |-> <<a, b>>,
                           checks |-> checks, ok |-> second.panic = "",
                           panic |-> second.panic, val |-> second.val,
                           first |-> first.val]
    /\ UNCHANGED machine_vars

\* a -= b and then a += b.
CallSubThenAdd ==
    /\ call = NoCall
    /\ \E a \in Value_MIN..Value_MAX, b \in Addends, checks \in BOOLEAN :
          \E first \in {sub_assign(a, b, checks)} :
              \E second \in {IF first.panic # "" THEN first
                              ELSE add_assign(first.val, b, checks)} :
                  call' = [fn |-> "sub_then_add", args |-> <<a, b>>,
                           checks |-> checks, ok |-> second.panic = "",
                           panic |-> second.panic, val |-> second.val,
                           first |-> first.val]
    /\ UNCHANGED machine_vars

NextValue ==
    \/ CallValueNew
    \/ CallWrapOverflow
    \/ CallFromDigits
    \/ CallAddThenSub
    \/ CallSubThenAdd

SpecValue == InitValue /\ [][NextValue]_vars

----------------------------------------------------------------------------
(* The Output: push_int and push_char calls on a fresh Output, and views   *)
(* of its buffer through split_into_lines.                                 *)

\* The most calls of push_int and push_char, and the widest view.
MaxEmit == 4
MaxWidth == 5

\* The Values printed: one digit, and a negative number of two.
OutputInts == {1, 2, 3, -42}

\* The characters printed: the line feed, a space, the digit 5, the letter a.
OutputChars == {LINE_FEED, SPACE, 53, 97}

\* Output::new
InitOutput ==
    /\ InitMachine({<<>>})
    /\ call = NoCall

PushInt ==
    /\ Len(emitted) < MaxEmit
    /\ \E integer \in OutputInts :
          /\ buffer' = push_int(buffer, integer)
          /\ emitted' = Append(emitted, [fn |-> "push_int", arg |-> integer])
    /\ call' = NoCall
    /\ UNCHANGED beside_output

PushChar ==
    /\ Len(emitted) < MaxEmit
    /\ \E character \in OutputChars :
          /\ buffer' = push_char(buffer, character)
          /\ emitted' = Append(emitted, [fn |-> "push_char", arg |-> character])
    /\ call' = NoCall
    /\ UNCHANGED beside_output

\* split_into_lines(max_line_length): the Vec it returns is held in call until
\* the next push.
SplitIntoLines ==
    /\ \E max_line_length \in 1..MaxWidth :
          call' = [fn |-> "split_into_lines", args |-> <<max_line_length>>,
                   checks |-> FALSE, ok |-> TRUE, panic |-> "",
                   val |-> split_into_lines(buffer, max_line_length)]
    /\ UNCHANGED <<buffer, emitted>>
    /\ UNCHANGED beside_output

NextOutput == PushInt \/ PushChar \/ SplitIntoLines

SpecOutput == InitOutput /\ [][NextOutput]_vars

----------------------------------------------------------------------------
(* A run to the end: a program that prints, with OTC, the characters of a  *)
(* range of accumulator values, as demos/ascii.bin does for 32..126.       *)

\* The most clock cycles of such a run (the program for 32..126 takes 665).
MaxRun == 700

\* The program: LDA 8 / OTC / ADD 9 / STA 8 / SUB 10 / BRZ 7 / BRA 0 / HLT /
\* DAT first / DAT 1 / DAT last + 1.  It executes OTC with the accumulator at
\* first, first + 1, ..., last, and halts.
OtcProgram(first, last) ==
    <<508, 922, 109, 308, 210, 707, 600, 0, first, 1, last + 1>>

\* The ranges printed: the printable ASCII characters, and two ranges with
\* values that are not the code of a character of one byte.
OtcRanges == {<<32, 126>>, <<-2, 2>>, <<319, 322>>}

InitOtc ==
    /\ InitMachine({<<>>})
    /\ call = NoCall

\* load_data_to_ram of the program's dump; call records the bytes loaded.
LoadOtcProgram ==
    /\ status = "new"
    /\ \E range \in OtcRanges, checks \in BOOLEAN :
          \E data \in {dump(OtcProgram(range[1], range[2]))} :
              \E r \in {load_data_to_ram(ram, data, checks)} :
                  /\ ram' = r.ram
                  /\ touched' = r.touched_addresses
                  /\ fault' = r.panic
                  /\ status' = IF r.panic = "" THEN "running" ELSE "panicked"
                  /\ call' = [fn |-> "load_data_to_ram", args |-> <<data>>,
                              checks |-> checks, ok |-> r.panic = "",
                              panic |-> r.panic, val |-> r.touched_addresses]
    /\ UNCHANGED <<program_counter, instruction_register, address_register,
                   accumulator, buffer, input, script, cycles, inp_count,
                   emitted>>

\* One iteration of run()'s loop, in a run to the end.
RunCycle ==
    /\ status = "running"
    /\ cycles < MaxRun
    /\ \E checks \in BOOLEAN :
          \E r \in {clock_cycle(Self, checks)} :
              /\ Becomes(r.self)
              /\ fault' = r.panic
              /\ status' = IF r.panic # "" THEN "panicked"
                           ELSE IF r.continue THEN "running" ELSE "halted"
    /\ cycles' = cycles + 1
    /\ UNCHANGED <<script, inp_count, touched, call, emitted>>

NextOtc == LoadOtcProgram \/ RunCycle

SpecOtc == InitOtc /\ [][NextOtc]_vars

----------------------------------------------------------------------------
(* The loader: load_data_to_ram of raw bytes on a fresh Computer.          *)

\* The most bytes of a dump whose bytes are drawn freely.
MaxBytes == 4

\* The bytes drawn: 0x03 0xE7 is 999 and 0xFC 0x19 is -999; 0x04 begins
\* words above 999 and 0xFF 0xFF is -1.
DumpBytes == {0, 3, 4, 25, 231, 252, 255}

\* The dumps of up to MaxBytes bytes.
ShortDumps == UNION {[1..n -> DumpBytes] : n \in 0..MaxBytes}

\* The dump of each single Value.
ValueDumps == {to_be_bytes(v) : v \in Value_MIN..Value_MAX}

\* Dumps around the size of RAM (200 bytes): a byte repeated, and another
\* byte from index 200 on.
LongDumps ==
    {[i \in 1..n |-> IF i > RAM_LEN * 2 THEN beyond ELSE byte] :
        n \in {199, 200, 201, 202}, byte \in {0, 1, 255}, beyond \in {3, 4}}

InitLoad ==
    /\ InitMachine({<<>>})
    /\ call = NoCall

\* load_data_to_ram(data) on the fresh Computer; call records the bytes
\* loaded and, when the call returned, the count it returned.
LoadBytes ==
    /\ status = "new"
    /\ \E data \in ShortDumps \cup ValueDumps \cup LongDumps,
          checks \in BOOLEAN :
          \E r \in {load_data_to_ram(ram, data, checks)} :
              /\ ram' = r.ram
              /\ touched' = r.touched_addresses
              /\ fault' = r.panic
              /\ status' = IF r.panic = "" THEN "running" ELSE "panicked"
              /\ call' = [fn |-> "load_data_to_ram", args |-> <<data>>,
                          checks |-> checks, ok |-> r.panic = "",
                          panic |-> r.panic, val |-> r.touched_addresses]
    /\ UNCHANGED <<program_counter, instruction_register, address_register,
                   accumulator, buffer, input, script, cycles, inp_count,
                   emitted>>

NextLoad == LoadBytes

SpecLoad == InitLoad /\ [][NextLoad]_vars

----------------------------------------------------------------------------
(* The assembler (src/src/assembler.rs).  A string is a sequence of        *)
(* characters, a line of the program is the sequence of its parts (what    *)
(* trim and split_whitespace leave of it), and the program is the          *)
(* sequence of its lines.                                                  *)

\* Option<T>
Some(v) == [some |-> TRUE, val |-> v]
None == [some |-> FALSE]

\* The mnemonics, as strings.
HLT == <<"H", "L", "T">>
ADD == <<"A", "D", "D">>
SUB == <<"S", "U", "B">>
STA == <<"S", "T", "A">>
LDA == <<"L", "D", "A">>
BRA == <<"B", "R", "A">>
BRZ == <<"B", "R", "Z">>
BRP == <<"B", "R", "P">>
INP == <<"I", "N", "P">>
OUT == <<"O", "U", "T">>
OTC == <<"O", "T", "C">>
DAT == <<"D", "A", "T">>

\* parse_opcode: the Opcode of a string, if it is a mnemonic.
parse_opcode(string) ==
    CASE string = HLT -> Some("HLT")
      [] string = ADD -> Some("ADD")
      [] string = SUB -> Some("SUB")
      [] string = STA -> Some("STA")
      [] string = LDA -> Some("LDA")
      [] string = BRA -> Some("BRA")
      [] string = BRZ -> Some("BRZ")
      [] string = BRP -> Some("BRP")
      [] string = INP -> Some("INP")
      [] string = OUT -> Some("OUT")
      [] string = OTC -> Some("OTC")
      [] string = DAT -> Some("DAT")
      [] OTHER -> None

\* The decimal digits, in order: the digit d is ASCII_DIGITS[d + 1].
ASCII_DIGITS == <<"0", "1", "2", "3", "4", "5", "6", "7", "8", "9">>

is_ascii_digit(c) == \E d \in 1..10 : ASCII_DIGITS[d] = c

\* The number a string of decimal digits denotes.
RECURSIVE decimal(_)
decimal(string) ==
    IF Len(string) = 0 THEN 0
    ELSE decimal(SubSeq(string, 1, Len(string) - 1)) * 10
         + ((CHOOSE d \in 1..10 : ASCII_DIGITS[d] = string[Len(string)]) - 1)

\* str::parse::<i16>: an optional sign, then one decimal digit or more; a
\* number that does not fit an i16 is an error, as anything else is.
parse_i16(string) ==
    LET signed == Len(string) > 0 /\ string[1] \in {"+", "-"}
        body == IF signed THEN Tail(string) ELSE string
        value == IF signed /\ string[1] = "-" THEN -decimal(body)
                 ELSE decimal(body)
    IN  IF Len(body) = 0 \/ \E i \in 1..Len(body) : ~is_ascii_digit(body[i])
        THEN Err
        ELSE IF value < I16_MIN \/ value > I16_MAX THEN Err
        ELSE Ok(value)

\* enum Line
Empty == [type |-> "Empty"]
Instruction(label, opcode, operand) ==
    [type |-> "Instruction", label |-> label, opcode |-> opcode,
     operand |-> operand]

\* enum Operand
OperandValue(value) == [type |-> "Value", value |-> value]
OperandLabel(string) == [type |-> "Label", label |-> string]

\* enum ParseErrorType
InvalidOpcode(string) == [type |-> "InvalidOpcode", opcode |-> string]
OperandOutOfRange(value) == [type |-> "OperandOutOfRange", value |-> value]

\* Err(ParseError { error, line })
ParseError(error, line) ==
    [ok |-> FALSE, error |-> [error |-> error, line |-> line]]

\* A mutant of parse_line: the line number of an error is the index of the
\* line, counted from 0.
parse_line_zero_based(line_index, parts) ==
    LET line_number == line_index
        comment == /\ Len(parts) > 0
                   /\ Len(parts[1]) >= 2
                   /\ parts[1][1] = "/"
                   /\ parts[1][2] = "/"
    IN  IF Len(parts) = 0 \/ comment THEN Ok(Empty)
        ELSE
            LET first_part_as_opcode == parse_opcode(parts[1])
                label == IF first_part_as_opcode.some THEN None
                         ELSE Some(parts[1])
                second == IF Len(parts) >= 2 THEN parse_opcode(parts[2])
                          ELSE None
                opcode == IF first_part_as_opcode.some
                          THEN first_part_as_opcode.val ELSE second.val
                operand_part ==
                    IF label.some
                    THEN IF Len(parts) >= 3 THEN Some(parts[3]) ELSE None
                    ELSE IF Len(parts) >= 2 THEN Some(parts[2]) ELSE None
                number == parse_i16(operand_part.val)
            IN  IF ~first_part_as_opcode.some /\ Len(parts) < 2
                THEN ParseError(InvalidOpcode(parts[1]), line_number)
                ELSE IF ~first_part_as_opcode.some /\ ~second.some
                THEN ParseError(InvalidOpcode(parts[2]), line_number)
                ELSE IF ~operand_part.some
                THEN Ok(Instruction(label, opcode, None))
                ELSE IF ~number.ok
                THEN Ok(Instruction(label, opcode,
                                    Some(OperandLabel(operand_part.val))))
                ELSE IF ~Value_new(number.val).ok
                THEN ParseError(OperandOutOfRange(number.val), line_number)
                ELSE Ok(Instruction(label, opcode,
                                    Some(OperandValue(number.val))))

\* A mutant of parse_line: a number outside the Value range is kept as a
\* label.
parse_line_lenient(line_index, parts) ==
    LET line_number == line_index + 1
        comment == /\ Len(parts) > 0
                   /\ Len(parts[1]) >= 2
                   /\ parts[1][1] = "/"
                   /\ parts[1][2] = "/"
    IN  IF Len(parts) = 0 \/ comment THEN Ok(Empty)
        ELSE
            LET first_part_as_opcode == parse_opcode(parts[1])
                label == IF first_part_as_opcode.some THEN None
                         ELSE Some(parts[1])
                second == IF Len(parts) >= 2 THEN parse_opcode(parts[2])
                          ELSE None
                opcode == IF first_part_as_opcode.some
                          THEN first_part_as_opcode.val ELSE second.val
                operand_part ==
                    IF label.some
                    THEN IF Len(parts) >= 3 THEN Some(parts[3]) ELSE None
                    ELSE IF Len(parts) >= 2 THEN Some(parts[2]) ELSE None
                number == parse_i16(operand_part.val)
            IN  IF ~first_part_as_opcode.some /\ Len(parts) < 2
                THEN ParseError(InvalidOpcode(parts[1]), line_number)
                ELSE IF ~first_part_as_opcode.some /\ ~second.some
                THEN ParseError(InvalidOpcode(parts[2]), line_number)
                ELSE IF ~operand_part.some
                THEN Ok(Instruction(label, opcode, None))
                ELSE IF ~number.ok
                THEN Ok(Instruction(label, opcode,
                                    Some(OperandLabel(operand_part.val))))
                ELSE IF ~Value_new(number.val).ok
                THEN Ok(Instruction(label, opcode,
                                    Some(OperandLabel(operand_part.val))))
                ELSE Ok(Instruction(label, opcode,
                                    Some(OperandValue(number.val))))

\* parse_assembly, the closure mapped over the lines: the line of index
\* line_index, whose parts are parts.
parse_line(line_index, parts) ==
    LET line_number == line_index + 1
        comment == /\ Len(parts) > 0
                   /\ Len(parts[1]) >= 2
                   /\ parts[1][1] = "/"
                   /\ parts[1][2] = "/"
    IN  IF Len(parts) = 0 \/ comment THEN Ok(Empty)
        ELSE
            LET first_part_as_opcode == parse_opcode(parts[1])
                label == IF first_part_as_opcode.some THEN None
                         ELSE Some(parts[1])
                second == IF Len(parts) >= 2 THEN parse_opcode(parts[2])
                          ELSE None
                opcode == IF first_part_as_opcode.some
                          THEN first_part_as_opcode.val ELSE second.val
                operand_part ==
                    IF label.some
                    THEN IF Len(parts) >= 3 THEN Some(parts[3]) ELSE None
                    ELSE IF Len(parts) >= 2 THEN Some(parts[2]) ELSE None
                number == parse_i16(operand_part.val)
            IN  IF ~first_part_as_opcode.some /\ Len(parts) < 2
                THEN ParseError(InvalidOpcode(parts[1]), line_number)
                ELSE IF ~first_part_as_opcode.some /\ ~second.some
                THEN ParseError(InvalidOpcode(parts[2]), line_number)
                ELSE IF ~operand_part.some
                THEN Ok(Instruction(label, opcode, None))
                ELSE IF ~number.ok
                THEN Ok(Instruction(label, opcode,
                                    Some(OperandLabel(operand_part.val))))
                ELSE IF ~Value_new(number.val).ok
                THEN ParseError(OperandOutOfRange(number.val), line_number)
                ELSE Ok(Instruction(label, opcode,
                                    Some(OperandValue(number.val))))

\* parse_assembly
parse_assembly(program) ==
    [i \in 1..Len(program) |-> parse_line(i - 1, program[i])]

\* A mutant of label_table_of: an insert does not replace what the label
\* mapped to, so the first line that carries a label is the one kept.
RECURSIVE label_table_first_wins(_, _)
label_table_first_wins(lines, n) ==
    IF n = 0 THEN <<>>
    ELSE LET labels == label_table_first_wins(lines, n - 1)
             line == lines[n]
             index == n - 1
         IN  IF line.type = "Instruction" /\ line.label.some
             THEN labels @@ (line.label.val :> index)
             ELSE labels

\* generate_label_table, after the first n lines: each insert replaces what
\* the label mapped to.
RECURSIVE label_table_of(_, _)
label_table_of(lines, n) ==
    IF n = 0 THEN <<>>
    ELSE LET labels == label_table_of(lines, n - 1)
             line == lines[n]
             index == n - 1
         IN  IF line.type = "Instruction" /\ line.label.some
             THEN (line.label.val :> index) @@ labels
             ELSE labels

\* generate_label_table
generate_label_table(lines) == label_table_of(lines, Len(lines))

\* A mutant of encode: SUB is given ADD's digit.
encode_sub_as_add(opcode, operand_num) ==
    CASE opcode = "HLT" -> Ok(0)
      [] opcode = "ADD" -> from_digits(1, operand_num)
      [] opcode = "SUB" -> from_digits(1, operand_num)
      [] opcode = "STA" -> from_digits(3, operand_num)
      [] opcode = "LDA" -> from_digits(5, operand_num)
      [] opcode = "BRA" -> from_digits(6, operand_num)
      [] opcode = "BRZ" -> from_digits(7, operand_num)
      [] opcode = "BRP" -> from_digits(8, operand_num)
      [] opcode = "INP" -> from_digits(9, 1)
      [] opcode = "OUT" -> from_digits(9, 2)
      [] opcode = "OTC" -> from_digits(9, 22)
      [] opcode = "DAT" ->
            IF Value_new(operand_num).ok THEN Ok(operand_num)
            ELSE ErrMsg("DAT: Value out of range")

\* generate_machine_code, the match on the opcode: the Value pushed, or the
\* error returned.
encode(opcode, operand_num) ==
    CASE opcode = "HLT" -> Ok(0)
      [] opcode = "ADD" -> from_digits(1, operand_num)
      [] opcode = "SUB" -> from_digits(2, operand_num)
      [] opcode = "STA" -> from_digits(3, operand_num)
      [] opcode = "LDA" -> from_digits(5, operand_num)
      [] opcode = "BRA" -> from_digits(6, operand_num)
      [] opcode = "BRZ" -> from_digits(7, operand_num)
      [] opcode = "BRP" -> from_digits(8, operand_num)
      [] opcode = "INP" -> from_digits(9, 1)
      [] opcode = "OUT" -> from_digits(9, 2)
      [] opcode = "OTC" -> from_digits(9, 22)
      [] opcode = "DAT" ->
            IF Value_new(operand_num).ok THEN Ok(operand_num)
            ELSE ErrMsg("DAT: Value out of range")

\* generate_machine_code, the loop from the i-th line on, output being what
\* the lines before it pushed.
RECURSIVE generate_from(_, _, _, _)
generate_from(lines, labels, i, output) ==
    IF i > Len(lines) THEN Ok(output)
    ELSE
        LET line == lines[i]
        IN  IF line.type = "Empty"
            THEN generate_from(lines, labels, i + 1, output)
            ELSE
                LET operand == line.operand
                    by_label == operand.some /\ operand.val.type = "Label"
                    operand_num ==
                        IF ~operand.some THEN 0
                        ELSE IF by_label
                        THEN wrap_i16(labels[operand.val.label])
                        ELSE operand.val.value
                    value == encode(line.opcode, operand_num)
                IN  IF by_label /\ operand.val.label \notin DOMAIN labels
                    THEN ErrMsg("Label not found")
                    ELSE IF ~value.ok THEN value
                    ELSE generate_from(lines, labels, i + 1,
                                       Append(output, value.val))

\* generate_machine_code
generate_machine_code(lines) ==
    generate_from(lines, generate_label_table(lines), 1, <<>>)

\* What assemble returns: Ok(machine code), or Err of an AssemblerError.
Assembled(machine_code) ==
    [ok |-> TRUE, val |-> machine_code, error |-> [type |-> "none"]]
AssemblerError(type, error) ==
    [ok |-> FALSE, val |-> <<>>, error |-> [type |-> type, error |-> error]]

\* assemble, on the lines kept for generate_machine_code.
assemble_kept(parsed, valid_lines) ==
    LET errors == {i \in 1..Len(parsed) : ~parsed[i].ok}
    IN  IF errors # {}
        THEN LET i == CHOOSE j \in errors : \A k \in errors : j <= k
             IN  AssemblerError("ParseError", parsed[i].error)
        ELSE LET generated == generate_machine_code(valid_lines)
             IN  IF generated.ok THEN Assembled(generated.val)
                 ELSE AssemblerError("MachineCodeError", generated.error)

\* A mutant of assemble: the Empty lines are kept, so a label's index counts
\* the blank and comment lines before it.
assemble_unfiltered(program) ==
    LET parsed == parse_assembly(program)
    IN  assemble_kept(parsed, [i \in 1..Len(parsed) |->
                                  IF parsed[i].ok THEN parsed[i].val ELSE Empty])

\* A mutant of assemble: a line with a parse error is skipped, as the Empty
\* lines are, and the machine code is generated from the other lines.
assemble_skipping_errors(program) ==
    LET parsed == parse_assembly(program)
        generated == generate_machine_code(
            SelectSeq([i \in 1..Len(parsed) |->
                          IF parsed[i].ok THEN parsed[i].val ELSE Empty],
                      LAMBDA line : line.type = "Instruction"))
    IN  IF generated.ok THEN Assembled(generated.val)
        ELSE AssemblerError("MachineCodeError", generated.error)

\* assemble: the first parse error is returned; the Empty lines are dropped
\* and the machine code is generated from the Instruction lines.
assemble(program) ==
    LET parsed == parse_assembly(program)
    IN  assemble_kept(parsed,
            SelectSeq([i \in 1..Len(parsed) |->
                          IF parsed[i].ok THEN parsed[i].val ELSE Empty],
                      LAMBDA line : line.type = "Instruction"))

\* The longest program whose lines are drawn freely.
MaxLines == 3

\* The comment "// x".
CommentLine == << <<"/", "/">>, <<"x">> >>

\* The lines drawn: a blank line, a comment, every mnemonic, operands that
\* are numbers, labels and missing, labels a and b (a on two lines), INP,
\* OUT and OTC with an operand (a number, the label a, and z, which no line
\* carries), three lines that do not parse (no mnemonic, or a number out of
\* the Value range) and one that parses and does not encode (ADD 100).
SourceLines ==
    {<<>>,
     CommentLine,
     <<INP>>,
     <<OUT>>,
     <<OTC>>,
     <<HLT>>,
     <<ADD, <<"9", "9">>>>,
     <<SUB, <<"a">>>>,
     <<STA, <<"9", "9">>>>,
     <<LDA, <<"a">>>>,
     <<BRA, <<"b">>>>,
     <<BRZ, <<"a">>>>,
     <<BRP>>,
     <<<<"a">>, DAT, <<"5">>>>,
     <<<<"b">>, DAT, <<"-", "7">>>>,
     <<<<"a">>, OUT>>,
     <<INP, <<"5">>>>,
     <<OTC, <<"a">>>>,
     <<OUT, <<"z">>>>,
     <<<<"x">>>>,
     <<<<"x">>, <<"y">>>>,
     <<DAT, <<"1", "0", "0", "0">>>>,
     <<ADD, <<"1", "0", "0">>>>}

\* The program of the test assembler_add_program.
AddProgram ==
    <<<<>>, CommentLine, <<INP>>, <<STA, <<"9", "9">>>>, <<INP>>,
      <<ADD, <<"9", "9">>>>, <<OUT>>, <<HLT>>, <<>>>>

SourcePrograms ==
    UNION {[1..n -> SourceLines] : n \in 0..MaxLines} \cup {AddProgram}

InitAssembler ==
    /\ InitMachine({<<>>})
    /\ call = NoCall

\* assemble(program); call records the program and what assemble returned.
Assemble ==
    /\ call = NoCall
    /\ \E program \in SourcePrograms :
          \E r \in {assemble(program)} :
              call' = [fn |-> "assemble", args |-> <<program>>,
                       checks |-> FALSE, ok |-> r.ok, panic |-> "",
                       val |-> r.val, error |-> r.error]
    /\ UNCHANGED machine_vars

\* parse_assembly(program); call records the program and the result of each
\* line.
ParseAssembly ==
    /\ call = NoCall
    /\ \E program \in SourcePrograms :
          \E r \in {parse_assembly(program)} :
              call' = [fn |-> "parse_assembly", args |-> <<program>>,
                       checks |-> FALSE, ok |-> TRUE, panic |-> "",
                       val |-> r, error |-> [type |-> "none"]]
    /\ UNCHANGED machine_vars

\* The operand tokens parsed: numbers at and beyond the ends of the Value
\* range and of i16, a signed number, and tokens that are not numbers.
OperandTokens ==
    {<<"9", "9", "9">>, <<"-", "9", "9", "9">>,
     <<"1", "0", "0", "0">>, <<"-", "1", "0", "0", "0">>,
     <<"3", "2", "7", "6", "7">>, <<"-", "3", "2", "7", "6", "8">>,
     <<"3", "2", "7", "6", "8">>, <<"4", "0", "0", "0", "0">>,
     <<"+", "5">>, <<"a">>, <<"5", "a">>, <<"-">>}

\* The lines with these operands, with and without a label, and the programs
\* that have such a line as their first, second or third.
OperandLines ==
    UNION {{<<m, token>>, <<<<"x">>, m, token>>} :
              m \in {ADD, DAT, OUT}, token \in OperandTokens}
OperandPrograms ==
    UNION {{<<line>>, <<<<>>, line>>, <<CommentLine, <<HLT>>, line>>} :
              line \in OperandLines}

\* parse_assembly(program) on a program with one of these lines.
ParseOperands ==
    /\ call = NoCall
    /\ \E program \in OperandPrograms :
          \E r \in {parse_assembly(program)} :
              call' = [fn |-> "parse_assembly", args |-> <<program>>,
                       checks |-> FALSE, ok |-> TRUE, panic |-> "",
                       val |-> r, error |-> [type |-> "none"]]
    /\ UNCHANGED machine_vars

\* Programs long enough for a label to be at the last addresses and past
\* them: HLT lines, then a line labelled x, then a line whose operand is x.
PadLengths == {98, 99, 100}
LongPrograms ==
    {[i \in 1..n |-> <<HLT>>] \o <<<<<<"x">>, DAT, <<"5">>>>, <<m, <<"x">>>>>> :
        n \in PadLengths,
        m \in {ADD, SUB, STA, LDA, BRA, BRZ, BRP, DAT}}

\* assemble(program) on one of the long programs.
AssembleLong ==
    /\ call = NoCall
    /\ \E program \in LongPrograms :
          \E r \in {assemble(program)} :
              call' = [fn |-> "assemble", args |-> <<program>>,
                       checks |-> FALSE, ok |-> r.ok, panic |-> "",
                       val |-> r.val, error |-> r.error]
    /\ UNCHANGED machine_vars

NextAssembler ==
    Assemble \/ ParseAssembly \/ ParseOperands \/ AssembleLong

SpecAssembler == InitAssembler /\ [][NextAssembler]_vars

\* ---------------------------------------------------------------------------
\* The add program, from its source to its output: assemble, the dump that
\* assemble_from_file writes, load_data_to_ram, run() with two scripted
\* inputs.

\* The Values given as inputs: those near the ends of the range, near zero,
\* and some between.
AddInputs ==
    ((-999)..(-995)) \cup ((-6)..6) \cup (995..999)
        \cup {-500, -100, 100, 500}

InitEndToEnd ==
    /\ InitMachine({<<a, b>> : a \in AddInputs, b \in AddInputs})
    /\ call = NoCall

\* assemble(program), program being the add program; call records what
\* assemble returned.
AssembleAddProgram ==
    /\ status = "new"
    /\ call = NoCall
    /\ \E r \in {assemble(AddProgram)} :
          call' = [fn |-> "assemble", args |-> <<AddProgram>>,
                   checks |-> FALSE, ok |-> r.ok, panic |-> "",
                   val |-> r.val, error |-> r.error]
    /\ UNCHANGED machine_vars

\* load_data_to_ram of the bytes of the machine code assembled.
LoadMachineCode ==
    /\ status = "new"
    /\ call.fn = "assemble"
    /\ call.ok
    /\ \E checks \in BOOLEAN :
          \E r \in {load_data_to_ram(ram, dump(call.val), checks)} :
              /\ ram' = r.ram
              /\ touched' = r.touched_addresses
              /\ fault' = r.panic
              /\ status' = IF r.panic = "" THEN "running" ELSE "panicked"
    /\ UNCHANGED <<program_counter, instruction_register, address_register,
                   accumulator, buffer, input, script, cycles, inp_count, call,
                   emitted>>

NextEndToEnd == AssembleAddProgram \/ LoadMachineCode \/ RunCycle

SpecEndToEnd == InitEndToEnd /\ [][NextEndToEnd]_vars

\* ---------------------------------------------------------------------------
\* One instruction from its source line to its execution: the program INP,
\* the line, a data word is assembled, its dump is loaded, and the run
\* executes the line as its second clock cycle.

\* The decimal text of an address 0..99, as the source writes it.
AddressToken(address) ==
    IF address < 10 THEN <<ASCII_DIGITS[address + 1]>>
    ELSE <<ASCII_DIGITS[(address \div 10) + 1],
           ASCII_DIGITS[(address % 10) + 1]>>

\* The lines executed: every mnemonic that takes an address with every
\* address, and INP, OUT, OTC, HLT.
AgreeLines ==
    {<<m, AddressToken(address)>> :
        m \in {ADD, SUB, STA, LDA, BRA, BRZ, BRP}, address \in 0..99}
        \cup {<<INP>>, <<OUT>>, <<OTC>>, <<HLT>>}

\* The data word at address 2.
AgreeData == {<<DAT, <<"0">>>>, <<DAT, <<"7">>>>, <<DAT, <<"-", "5">>>>}

\* The scripted inputs: the first is the accumulator the line executes with.
AgreeInputs == {<<0, 5>>, <<-1, 321>>, <<999, 65>>}

InitAgree ==
    /\ InitMachine(AgreeInputs)
    /\ call = NoCall

\* assemble(program), program being INP, a line, a data word; call records
\* what assemble returned.
AssembleLine ==
    /\ status = "new"
    /\ call = NoCall
    /\ \E line \in AgreeLines, data \in AgreeData :
          \E program \in {<<<<INP>>, line, data>>} :
              \E r \in {assemble(program)} :
                  call' = [fn |-> "assemble", args |-> <<program>>,
                           checks |-> FALSE, ok |-> r.ok, panic |-> "",
                           val |-> r.val, error |-> r.error]
    /\ UNCHANGED machine_vars

NextAgree == AssembleLine \/ LoadMachineCode \/ RunCycle

SpecAgree == InitAgree /\ [][NextAgree]_vars

\* ---------------------------------------------------------------------------
\* The run of a small word: the word is loaded at address 0, or at address 1
\* after an OUT, and the program counter reaches it.

\* The words run: those of magnitude up to 150.
SmallWords == (-150)..150

InitHalt ==
    /\ InitMachine({<<>>})
    /\ call = NoCall

\* load_data_to_ram of the dump of the word, or of OUT and the word; call
\* records the bytes loaded.
LoadWord ==
    /\ status = "new"
    /\ \E word \in SmallWords, checks \in BOOLEAN :
          \E data \in {dump(<<word>>), dump(<<902, word>>)} :
              \E r \in {load_data_to_ram(ram, data, checks)} :
                  /\ ram' = r.ram
                  /\ touched' = r.touched_addresses
                  /\ fault' = r.panic
                  /\ status' = IF r.panic = "" THEN "running" ELSE "panicked"
                  /\ call' = [fn |-> "load_data_to_ram", args |-> <<data>>,
                              checks |-> checks, ok |-> r.panic = "",
                              panic |-> r.panic, val |-> r.touched_addresses]
    /\ UNCHANGED <<program_counter, instruction_register, address_register,
                   accumulator, buffer, input, script, cycles, inp_count,
                   emitted>>

NextHalt == LoadWord \/ RunCycle

SpecHalt == InitHalt /\ [][NextHalt]_vars

\* ---------------------------------------------------------------------------
\* run() with print_computer_state set: each iteration of the loop prints
\* the output on one line and then executes a clock cycle; when run() has
\* returned, the caller reads the output with read_all.

\* The memory images run: those of the machine, and BRA 0 at address 0.
RunPrograms == Programs \cup {<<600>>}

InitRun ==
    /\ InitMachine(ScriptedInputs)
    /\ call = NoCall

\* load_data_to_ram(data) on the fresh Computer.
LoadRunProgram ==
    /\ status = "new"
    /\ \E words \in RunPrograms, checks \in BOOLEAN :
          \E r \in {load_data_to_ram(ram, dump(words), checks)} :
              /\ ram' = r.ram
              /\ touched' = r.touched_addresses
              /\ fault' = r.panic
              /\ status' = IF r.panic = "" THEN "running" ELSE "panicked"
    /\ UNCHANGED <<program_counter, instruction_register, address_register,
                   accumulator, buffer, input, script, cycles, inp_count, call,
                   emitted>>

\* One iteration of run()'s loop: print_on_one_line, of which call records
\* the rows, then a clock cycle, and the loop's test of what it returned.
RunIteration ==
    /\ status = "running"
    /\ cycles < MaxCycles
    /\ call' = [fn |-> "print_on_one_line", args |-> <<>>, checks |-> FALSE,
                ok |-> TRUE, panic |-> "", val |-> print_on_one_line(buffer)]
    /\ \E checks \in BOOLEAN :
          \E r \in {clock_cycle(Self, checks)} :
              /\ Becomes(r.self)
              /\ fault' = r.panic
              /\ status' = IF r.panic # "" THEN "panicked"
                           ELSE IF r.continue THEN "running" ELSE "halted"
              /\ inp_count' = IF r.panic = "" /\ in_bounds(program_counter)
                                 /\ Fetched = 901
                              THEN inp_count + 1 ELSE inp_count
    /\ cycles' = cycles + 1
    /\ UNCHANGED <<script, touched, emitted>>

\* computer.output.read_all(), after run() has returned; call records the
\* String returned.
ReadAll ==
    /\ status = "halted"
    /\ call.fn # "read_all"
    /\ call' = [fn |-> "read_all", args |-> <<>>, checks |-> FALSE,
                ok |-> TRUE, panic |-> "", val |-> read_all(buffer)]
    /\ UNCHANGED machine_vars

NextRun == LoadRunProgram \/ RunIteration \/ ReadAll

SpecRun == InitRun /\ [][NextRun]_vars

----------------------------------------------------------------------------
(* Properties *)

\* The domain of Value.
InValueRange(v) == v >= -999 /\ v <= 999

\* The wrap of an integer into the Value domain, modulo 1999.
Wrapped(v) ==
    IF v > 999 THEN v - 1999 ELSE IF v < -999 THEN v + 1999 ELSE v

\* The step is a clock cycle (one iteration of run()'s loop).
IsCycle == status = "running" /\ cycles' = cycles + 1

\* The step is a clock cycle that fetches a word (the fetch is within RAM).
Fetches == IsCycle /\ in_bounds(program_counter)

\* C1: after load_data_to_ram and any number of clock cycles that did not
\* panic, RAM has 100 cells and every cell and the accumulator hold an integer
\* in [-999, 999].
C1_ValuesInRange ==
    status \in {"running", "halted"} =>
        /\ DOMAIN ram = 0..99
        /\ \A a \in DOMAIN ram : InValueRange(ram[a])
        /\ InValueRange(accumulator)

\* An ADD has just wrapped the accumulator: the sum of what it held and the
\* cell was above 999.
C1_Witness ==
    /\ status = "running"
    /\ cycles >= 2
    /\ instruction_register = 1
    /\ InValueRange(accumulator + 1999 - ram[address_register])
    /\ accumulator + 1999 > 999

\* C2: for every v in [-1998, 1998], in either build, wrap_overflow(v) returns
\* a value in [-999, 999]: v - 1999 if v > 999, v + 1999 if v < -999, else v.
C2_WrapOverflow ==
    (call.fn = "wrap_overflow" /\ call.args[1] \in (-1998)..1998) =>
        /\ call.panic = ""
        /\ InValueRange(call.val)
        /\ call.val = (IF call.args[1] > 999 THEN call.args[1] - 1999
                       ELSE IF call.args[1] < -999 THEN call.args[1] + 1999
                       ELSE call.args[1])

\* wrap_overflow(999 + 1) returned -999.
C2_Witness ==
    /\ call.fn = "wrap_overflow"
    /\ call.args = <<1000>>
    /\ call.panic = ""
    /\ call.val = -999

\* C3: Value::new(i) is Ok exactly when -999 <= i <= 999, for every i16 i, and
\* the Value it returns equals i.
C3_ValueNew ==
    call.fn = "new" =>
        /\ call.ok <=> (call.args[1] >= -999 /\ call.args[1] <= 999)
        /\ call.ok => call.val = call.args[1]

\* Value::new(-1000) failed.
C3_Witness ==
    /\ call.fn = "new"
    /\ call.args = <<-1000>>
    /\ ~call.ok

\* C4: a clock cycle that fetches ADD xx (SUB xx) does not panic, continues,
\* and leaves in the accumulator the sum accumulator + RAM[xx] (the difference
\* accumulator - RAM[xx]) wrapped modulo 1999 into [-999, 999].
C4_AddSubWrap ==
    [][(Fetches /\ first_digit(Fetched) \in {1, 2}) =>
          /\ status' = "running"
          /\ fault' = ""
          /\ first_digit(Fetched) = 1 =>
                accumulator' =
                    Wrapped(accumulator + ram[last_two_digits(Fetched)])
          /\ first_digit(Fetched) = 2 =>
                accumulator' =
                    Wrapped(accumulator - ram[last_two_digits(Fetched)])]_vars

\* An ADD of a cell holding 1 has just left -999 in the accumulator: it held
\* 999 before.
C4_Witness ==
    /\ status = "running"
    /\ cycles >= 2
    /\ instruction_register = 1
    /\ ram[address_register] = 1
    /\ accumulator = -999

\* C5: from_digits(d, a) is Ok exactly when d is in [0, 9] and a in [0, 99];
\* the Value it returns is d * 100 + a, whose first_digit is d and whose
\* last_two_digits is a.
C5_FromDigits ==
    call.fn = "from_digits" =>
        /\ call.ok <=> (call.args[1] \in 0..9 /\ call.args[2] \in 0..99)
        /\ call.ok =>
              /\ call.val = call.args[1] * 100 + call.args[2]
              /\ first_digit(call.val) = call.args[1]
              /\ last_two_digits(call.val) = call.args[2]

\* from_digits(5, 99) returned 599.
C5_Witness ==
    /\ call.fn = "from_digits"
    /\ call.args = <<5, 99>>
    /\ call.ok
    /\ call.val = 599

\* C6: after a clock cycle that fetched its word at address p and returned
\* true, program_counter is the word's address field if the word is BRA, or
\* BRZ with the accumulator zero, or BRP with the accumulator >= 0; otherwise
\* it is p + 1.
C6_ProgramCounter ==
    [][(Fetches /\ status' = "running") =>
          LET op == first_digit(Fetched)
              taken == \/ op = 6
                       \/ op = 7 /\ accumulator = 0
                       \/ op = 8 /\ accumulator >= 0
          IN  program_counter' = IF taken THEN last_two_digits(Fetched)
                                 ELSE program_counter + 1]_vars

\* A BRP has just branched on a zero accumulator: program_counter is its
\* target, address 0, which no fetch address plus one equals.
C6_Witness ==
    /\ status = "running"
    /\ cycles >= 2
    /\ instruction_register = 8
    /\ accumulator = 0
    /\ address_register = 0
    /\ program_counter = 0

\* C7: a clock cycle that fetches STA xx makes RAM[xx] the accumulator and
\* leaves the accumulator and every other cell as they were; one that fetches
\* LDA xx makes the accumulator RAM[xx] and leaves RAM as it was.
C7_StoreLoad ==
    [][Fetches =>
          LET op == first_digit(Fetched)
              xx == last_two_digits(Fetched)
          IN  /\ op = 3 => /\ ram' = [ram EXCEPT ![xx] = accumulator]
                           /\ accumulator' = accumulator
              /\ op = 5 => /\ accumulator' = ram[xx]
                           /\ ram' = ram]_vars

\* A STA has just stored a non-zero accumulator in a cell.
C7_Witness ==
    /\ status = "running"
    /\ cycles >= 2
    /\ instruction_register = 3
    /\ accumulator # 0
    /\ ram[address_register] = accumulator

\* C8: a clock cycle that fetches the word 0 returns false (run() stops), and
\* leaves RAM, the accumulator, the output buffer and the remaining input as
\* they were.
C8_Halt ==
    [][(Fetches /\ Fetched = 0) =>
          /\ status' = "halted"
          /\ ram' = ram
          /\ accumulator' = accumulator
          /\ buffer' = buffer
          /\ input' = input]_vars

\* The machine halted on a word 0, after cycles that left output, an
\* accumulator and input behind.
C8_Witness ==
    /\ status = "halted"
    /\ ram[program_counter - 1] = 0
    /\ instruction_register = 0
    /\ accumulator # 0
    /\ buffer # <<>>
    /\ input # <<>>

\* C9: the INP instructions take the scripted input first in, first out: what
\* is left of the queue is the script without its first inp_count values (one
\* value per INP executed, none for any other instruction), and the k-th INP
\* leaves script[k] in the accumulator.
C9_InputFifo ==
    /\ inp_count <= Len(script)
    /\ input = SubSeq(script, inp_count + 1, Len(script))
    /\ (status = "running" /\ cycles >= 1 /\ instruction_register = 9
            /\ address_register = 1) =>
          accumulator = script[inp_count]

\* The second INP has just left the script's second value, which is not its
\* first or its last, in the accumulator.
C9_Witness ==
    /\ status = "running"
    /\ instruction_register = 9
    /\ address_register = 1
    /\ inp_count = 2
    /\ Len(script) = 3
    /\ accumulator = script[2]
    /\ script[2] # script[1]
    /\ script[2] # script[3]
    /\ input = <<script[3]>>

\* The step is a clock cycle that fetches INP with the scripted input empty.
InpOnEmpty == Fetches /\ Fetched = 901 /\ input = <<>>

\* C10, as claimed: INP on an empty scripted input ends the run with a typed
\* error, not a panic.
C10_TypedError ==
    [][InpOnEmpty => status' # "panicked"]_vars

\* C10, amended: INP on an empty scripted input panics with "No more input
\* values available", leaving RAM, accumulator and output as they were, and no
\* clock cycle follows a panic.
C10_InputExhaustedPanics ==
    [][/\ status # "panicked"
       /\ InpOnEmpty =>
             /\ status' = "panicked"
             /\ fault' = "No more input values available"
             /\ ram' = ram
             /\ accumulator' = accumulator
             /\ buffer' = buffer]_vars

\* A run that took both values of its script panicked on the next INP.
C10_Witness ==
    /\ status = "panicked"
    /\ fault = "No more input values available"
    /\ instruction_register = 9
    /\ address_register = 1
    /\ Len(script) = 2
    /\ inp_count = 2
    /\ cycles = 3

\* C11: a clock cycle that fetches a word whose opcode digit is 4, or is not
\* in 0..9 (a word of -100 or less), panics: the run stops, and RAM, the
\* accumulator and the output buffer are what they were before the cycle.
C11_BadOpcodeFaults ==
    [][(Fetches /\ (first_digit(Fetched) = 4
                    \/ first_digit(Fetched) \notin 0..9))
         => /\ status' = "panicked"
            /\ fault' \in {"Opcode 4 is not allowed!", "Unhandled opcode"}
            /\ ram' = ram
            /\ accumulator' = accumulator
            /\ buffer' = buffer]_vars

\* A run that read an input and printed it has then fetched a word with a
\* negative opcode digit and stopped on it, accumulator and buffer in place.
C11_Witness ==
    /\ status = "panicked"
    /\ fault = "Unhandled opcode"
    /\ instruction_register < 0
    /\ cycles = 3
    /\ accumulator # 0
    /\ buffer # <<>>

\* C12: a clock cycle that fetches a word 9xx with xx not 01, 02 or 22 does
\* nothing: it returns true (the run continues), the program counter is one
\* more, and RAM, the accumulator, the output buffer and the scripted input
\* are unchanged.
C12_UnknownIoIsNoOp ==
    [][(Fetches /\ first_digit(Fetched) = 9
                /\ last_two_digits(Fetched) \notin {1, 2, 22})
         => /\ status' = "running"
            /\ program_counter' = program_counter + 1
            /\ ram' = ram
            /\ accumulator' = accumulator
            /\ buffer' = buffer
            /\ input' = input]_vars

\* A run that read an input and printed it, with input left, has then
\* executed a 9xx word that is none of INP, OUT, OTC, and goes on.
C12_Witness ==
    /\ status = "running"
    /\ instruction_register = 9
    /\ address_register \notin {1, 2, 22}
    /\ cycles = 3
    /\ program_counter = 3
    /\ accumulator # 0
    /\ buffer # <<>>
    /\ input # <<>>

\* The concatenation of a sequence of sequences.
RECURSIVE Flatten(_)
Flatten(seqs) ==
    IF Len(seqs) = 0 THEN <<>> ELSE Head(seqs) \o Flatten(Tail(seqs))

\* A text cut into pieces of w characters (the last may be shorter); the
\* empty text is one empty piece.
Chunks(text, w) ==
    IF Len(text) = 0 THEN << <<>> >>
    ELSE [k \in 1..((Len(text) + w - 1) \div w) |->
             SubSeq(text, (k - 1) * w + 1,
                    IF k * w < Len(text) THEN k * w ELSE Len(text))]

\* A text cut at its line feeds: the pieces between them, in order.
RECURSIVE Segments(_)
Segments(text) ==
    IF \E i \in 1..Len(text) : text[i] = LINE_FEED
    THEN LET i == CHOOSE j \in 1..Len(text) :
                      /\ text[j] = LINE_FEED
                      /\ \A k \in 1..(j - 1) : text[k] # LINE_FEED
         IN  <<SubSeq(text, 1, i - 1)>>
                 \o Segments(SubSeq(text, i + 1, Len(text)))
    ELSE <<text>>

\* The decimal texts of the numbers pushed, joined by line feeds.
RECURSIVE JoinedTexts(_)
JoinedTexts(calls) ==
    IF Len(calls) = 0 THEN <<>>
    ELSE IF Len(calls) = 1 THEN to_string(calls[1].arg)
    ELSE JoinedTexts(SubSeq(calls, 1, Len(calls) - 1))
             \o <<LINE_FEED>> \o to_string(calls[Len(calls)].arg)

\* Every call made on the Output so far is a push_int, and there is one.
OnlyNumbers ==
    /\ emitted # <<>>
    /\ \A i \in 1..Len(emitted) : emitted[i].fn = "push_int"

\* C13: when only numbers have been pushed, the buffer is their decimal
\* texts joined by single line feeds, and split_into_lines(w), for any
\* w >= 1, is each number's text in turn, cut into rows of w characters: no
\* row holds characters of two numbers.
C13_NumbersOnOwnLines ==
    OnlyNumbers =>
        /\ buffer = JoinedTexts(emitted)
        /\ call.fn = "split_into_lines" =>
               call.val = Flatten([i \in 1..Len(emitted) |->
                              Chunks(to_string(emitted[i].arg), call.args[1])])

\* 1, 2 and 3 have been pushed and the view of width 4 has three lines.
C13_Witness ==
    /\ emitted = <<[fn |-> "push_int", arg |-> 1],
                   [fn |-> "push_int", arg |-> 2],
                   [fn |-> "push_int", arg |-> 3]>>
    /\ call.fn = "split_into_lines"
    /\ call.args = <<4>>
    /\ Len(call.val) = 3

\* C14: push_int puts a line feed before the number's text if and only if
\* the call before it on the Output was a push_int; after a push_char,
\* whatever the character, and on an empty buffer, it appends the text alone.
C14_SeparatorIffAfterNumber ==
    [][\A integer \in OutputInts :
          emitted' = Append(emitted, [fn |-> "push_int", arg |-> integer])
              => buffer' =
                    buffer
                    \o (IF emitted # <<>>
                           /\ emitted[Len(emitted)].fn = "push_int"
                        THEN <<LINE_FEED>> ELSE <<>>)
                    \o to_string(integer)]_vars

\* C15: for every buffer and every width w >= 1, split_into_lines(w) returns
\* at least one line; no line holds a line feed or more than w characters;
\* the lines are the pieces of the buffer between its line feeds, each cut
\* into rows of w characters; and the lines concatenated are the buffer
\* without its line feeds.
C15_SplitIntoLines ==
    call.fn = "split_into_lines" =>
        LET lines == call.val
            w == call.args[1]
            segments == Segments(buffer)
        IN  /\ Len(lines) >= 1
            /\ \A k \in 1..Len(lines) :
                  /\ Len(lines[k]) <= w
                  /\ \A i \in 1..Len(lines[k]) : lines[k][i] # LINE_FEED
            /\ lines = Flatten([n \in 1..Len(segments) |->
                                  Chunks(segments[n], w)])
            /\ Flatten(lines) = SelectSeq(buffer, LAMBDA c : c # LINE_FEED)

\* A view of width 4 of a buffer that has a line feed: the first line is
\* full and the second holds the one character that was left over.
C15_Witness ==
    /\ call.fn = "split_into_lines"
    /\ call.args = <<4>>
    /\ \E i \in 1..Len(buffer) : buffer[i] = LINE_FEED
    /\ Len(call.val) >= 3
    /\ Len(call.val[1]) = 4
    /\ Len(call.val[2]) = 1

\* The characters of the codes first..last, in order.
CharsOf(first, last) == [i \in 1..(last - first + 1) |-> first + i - 1]

\* The step ends the run of the program that prints the range first..last.
Halts(first, last) ==
    /\ IsCycle
    /\ status' = "halted"
    /\ call.args = <<dump(OtcProgram(first, last))>>

\* C16 as stated: a clock cycle that fetches OTC (922) appends exactly one
\* character, whose code is the accumulator, and the program that executes
\* OTC for 32, 33, ..., 126 leaves exactly the characters 0x20 to 0x7E.
C16_OtcCodeIsAccumulator ==
    [][/\ (Fetches /\ Fetched = 922) => buffer' = Append(buffer, accumulator)
       /\ Halts(32, 126) => buffer' = CharsOf(32, 126)]_vars

\* C16: a clock cycle that fetches OTC (922) appends exactly one character
\* to the buffer and nothing else; its code is the accumulator modulo 256,
\* which is the accumulator itself when that is in 0..255; and the program
\* that executes OTC for 32, 33, ..., 126 leaves exactly the characters 0x20
\* to 0x7E in the buffer, in order.
C16_OtcAppendsOneChar ==
    [][/\ (Fetches /\ Fetched = 922) =>
             /\ buffer' = Append(buffer, accumulator % 256)
             /\ accumulator \in 0..255 => buffer' = Append(buffer, accumulator)
             /\ accumulator' = accumulator
       /\ Halts(32, 126) => buffer' = CharsOf(32, 126)]_vars

\* The program for 32..126 has halted, after 665 clock cycles, with the 95
\* printable characters in the buffer.
C16_Witness ==
    /\ status = "halted"
    /\ call.args = <<dump(OtcProgram(32, 126))>>
    /\ cycles = 665
    /\ Len(buffer) = 95
    /\ buffer[1] = 32
    /\ buffer[95] = 126

\* The step is a call of load_data_to_ram on the bytes data.
Loads(data) ==
    /\ status = "new"
    /\ call'.fn = "load_data_to_ram"
    /\ call'.args = <<data>>

\* The k-th byte pair of a dump as a signed 16-bit big-endian word.
WordAt(data, k) ==
    LET u == data[2 * k - 1] * 256 + data[2 * k]
    IN  IF u >= 32768 THEN u - 65536 ELSE u

\* The dump is that of a sequence of Values: whole pairs, each a word in
\* [-999, 999].
DumpOfValues(data) ==
    /\ Len(data) % 2 = 0
    /\ \A k \in 1..(Len(data) \div 2) : InValueRange(WordAt(data, k))

\* The cells n bytes are loaded to: ceil(min(n, 200) / 2).
CellsOf(n) == ((IF n < 200 THEN n ELSE 200) + 1) \div 2

\* C17, for the dumps of Values: load_data_to_ram given n bytes touches
\* exactly the leading ceil(min(n, 200) / 2) cells and returns that count;
\* every other cell keeps its previous value; and the bytes at index 200 and
\* beyond do not affect any cell.
C17_LoadTouchesLeadingCells ==
    [][\A data \in ShortDumps \cup ValueDumps \cup LongDumps :
          (Loads(data) /\ DumpOfValues(data)) =>
              /\ status' = "running"
              /\ touched' = CellsOf(Len(data))
              /\ \A a \in 0..(RAM_LEN - 1) :
                    /\ a >= CellsOf(Len(data)) => ram'[a] = ram[a]
                    /\ a < CellsOf(Len(data)) => ram'[a] = WordAt(data, a + 1)]_vars

\* C18: for every Value v in [-999, 999], load_data_to_ram of the two bytes
\* to_be_bytes(v) returns, without a panic, and leaves cell 0 equal to v.
C18_BytesRoundTrip ==
    [][\A v \in Value_MIN..Value_MAX :
          Loads(to_be_bytes(v)) =>
              /\ status' = "running"
              /\ fault' = ""
              /\ ram'[0] = v]_vars

\* The parts are those of an instruction line: the line is neither blank nor
\* a comment.
IsInstructionLine(parts) ==
    /\ Len(parts) > 0
    /\ ~(Len(parts[1]) >= 2 /\ parts[1][1] = "/" /\ parts[1][2] = "/")

\* The instruction lines of a program, in source order.
InstructionLines(program) == SelectSeq(program, IsInstructionLine)

Mnemonics == {HLT, ADD, SUB, STA, LDA, BRA, BRZ, BRP, INP, OUT, OTC, DAT}

\* The mnemonics that take an address, and the opcode digit of each.
AddressMnemonics == {ADD, SUB, STA, LDA, BRA, BRZ, BRP}
OpcodeDigit(mnemonic) ==
    CASE mnemonic = ADD -> 1
      [] mnemonic = SUB -> 2
      [] mnemonic = STA -> 3
      [] mnemonic = LDA -> 5
      [] mnemonic = BRA -> 6
      [] mnemonic = BRZ -> 7
      [] mnemonic = BRP -> 8

\* An instruction line is [label] MNEMONIC [operand].
MnemonicAt(parts) == IF parts[1] \in Mnemonics THEN 1 ELSE 2
MnemonicOf(parts) == parts[MnemonicAt(parts)]
HasOperand(parts) == Len(parts) > MnemonicAt(parts)
OperandOf(parts) == parts[MnemonicAt(parts) + 1]
HasLiteral(parts) == HasOperand(parts) /\ parse_i16(OperandOf(parts)).ok
HasLabelOperand(parts) == HasOperand(parts) /\ ~parse_i16(OperandOf(parts)).ok
CarriesLabel(parts, label) == parts[1] \notin Mnemonics /\ parts[1] = label

\* The Value is the encoding of the instruction line: 0 for HLT, the opcode
\* digit and an address for the mnemonics that take one, 901, 902, 922 for
\* INP, OUT, OTC, the operand for DAT; the address or operand is the number
\* written, and 0 when none is.
Encodes(parts, value) ==
    LET mnemonic == MnemonicOf(parts)
        number == parse_i16(OperandOf(parts)).val
    IN  CASE mnemonic = HLT -> value = 0
          [] mnemonic \in AddressMnemonics ->
                \E address \in 0..99 :
                    /\ value = OpcodeDigit(mnemonic) * 100 + address
                    /\ ~HasOperand(parts) => address = 0
                    /\ HasLiteral(parts) => address = number
          [] mnemonic = INP -> value = 901
          [] mnemonic = OUT -> value = 902
          [] mnemonic = OTC -> value = 922
          [] mnemonic = DAT ->
                /\ ~HasOperand(parts) => value = 0
                /\ HasLiteral(parts) => value = number

\* C19: when assemble succeeds, the machine code has one Value for each
\* instruction line of the program (blank and comment lines give none), in
\* source order, and the i-th Value encodes the i-th instruction line.
C19_OneValuePerInstruction ==
    (call.fn = "assemble" /\ call.ok) =>
        LET lines == InstructionLines(call.args[1])
        IN  /\ Len(call.val) = Len(lines)
            /\ \A i \in 1..Len(lines) : Encodes(lines[i], call.val[i])

\* The program of the test assembler_add_program, with its blank lines and
\* its comment, has been assembled to 901, 399, 901, 199, 902, 0.
C19_Witness ==
    /\ call.fn = "assemble"
    /\ call.ok
    /\ call.args = <<AddProgram>>
    /\ call.val = <<901, 399, 901, 199, 902, 0>>

\* C20: when assemble succeeds, an operand that names a label is resolved to
\* the index, in the machine code, of an instruction line that carries the
\* label, whatever blank or comment lines the program has: the address of
\* the Value emitted (the Value itself for DAT) is that index.
C20_LabelIsEmittedIndex ==
    (call.fn = "assemble" /\ call.ok) =>
        LET lines == InstructionLines(call.args[1])
        IN  \A i \in 1..Len(lines) :
              (/\ HasLabelOperand(lines[i])
               /\ MnemonicOf(lines[i]) \in AddressMnemonics \cup {DAT})
                => LET address == IF MnemonicOf(lines[i]) = DAT THEN call.val[i]
                                  ELSE call.val[i] % 100
                   IN  /\ address \in 0..(Len(lines) - 1)
                       /\ CarriesLabel(lines[address + 1], OperandOf(lines[i]))

\* A comment, then BRA b, then the line labelled b: the branch is to
\* address 1, where the Value of the labelled line is.
C20_Witness ==
    /\ call.fn = "assemble"
    /\ call.ok
    /\ call.args = << <<CommentLine, <<BRA, <<"b">>>>,
                        <<<<"b">>, DAT, <<"-", "7">>>>>> >>
    /\ call.val = <<601, -7>>

\* An instruction line has a mnemonic as its first or second token.
WellFormed(parts) ==
    \/ parts[1] \in Mnemonics
    \/ Len(parts) >= 2 /\ parts[2] \in Mnemonics

\* The instruction line has a parse error: no mnemonic where one must be, or
\* an operand that is a number outside the Value range.
HasParseError(parts) ==
    /\ IsInstructionLine(parts)
    /\ \/ ~WellFormed(parts)
       \/ /\ HasLiteral(parts)
          /\ ~InValueRange(parse_i16(OperandOf(parts)).val)

\* The line parses and its operand is a label that no line of the program
\* carries.
UndefinedLabel(program, parts) ==
    /\ IsInstructionLine(parts)
    /\ WellFormed(parts)
    /\ HasLabelOperand(parts)
    /\ \A i \in 1..Len(program) :
          IsInstructionLine(program[i]) =>
              ~CarriesLabel(program[i], OperandOf(parts))

\* The line parses and its operand is a number that is not an address.
OperandTooLarge(parts) ==
    /\ IsInstructionLine(parts)
    /\ WellFormed(parts)
    /\ MnemonicOf(parts) \in AddressMnemonics
    /\ HasLiteral(parts)
    /\ parse_i16(OperandOf(parts)).val \notin 0..99

\* The tokens of the program that an error of assemble carries: the token of
\* an InvalidOpcode; an OperandOutOfRange carries a number and a
\* MachineCodeError a fixed message.
ErrorTokens(error) ==
    IF error.type = "ParseError" /\ error.error.error.type = "InvalidOpcode"
    THEN {error.error.error.opcode}
    ELSE {}

\* C21: assembling a program in which the operand of an instruction is a
\* label that no line carries, and that has no other defect, fails, returns
\* no machine code, and the error carries a label that is not defined.
C21_UndefinedLabelIsNamed ==
    (/\ call.fn = "assemble"
     /\ \A i \in 1..Len(call.args[1]) :
           /\ ~HasParseError(call.args[1][i])
           /\ ~OperandTooLarge(call.args[1][i]))
      => LET program == call.args[1]
             undefined == {OperandOf(program[i]) :
                              i \in {j \in 1..Len(program) :
                                        UndefinedLabel(program, program[j])}}
         IN  undefined # {} =>
                /\ ~call.ok
                /\ call.val = <<>>
                /\ ErrorTokens(call.error) \cap undefined # {}

\* The instruction fails to encode: its mnemonic takes an address or is DAT
\* and its operand is an undefined label, or a number that is not an address.
FailsToEncode(program, parts) ==
    \/ /\ UndefinedLabel(program, parts)
       /\ MnemonicOf(parts) \in AddressMnemonics \cup {DAT}
    \/ OperandTooLarge(parts)

\* C22: when a line of the program has a parse error, assemble returns a
\* ParseError and no machine code, whatever the other lines are and even if
\* an instruction before that line fails to encode; when no line has a parse
\* error and an instruction fails to encode, assemble returns a
\* MachineCodeError and no machine code.
C22_AllOrNothing ==
    call.fn = "assemble" =>
        LET program == call.args[1]
            parse_errors == {i \in 1..Len(program) :
                                HasParseError(program[i])}
            encode_errors == {i \in 1..Len(program) :
                                 FailsToEncode(program, program[i])}
        IN  /\ parse_errors # {} =>
                  /\ ~call.ok
                  /\ call.val = <<>>
                  /\ call.error.type = "ParseError"
            /\ (parse_errors = {} /\ encode_errors # {}) =>
                  /\ ~call.ok
                  /\ call.val = <<>>
                  /\ call.error.type = "MachineCodeError"

\* INP, then ADD 100, which does not encode, then a line with no mnemonic:
\* the error is the parse error of the third line.
C22_Witness ==
    /\ call.fn = "assemble"
    /\ call.args = << <<<<INP>>, <<ADD, <<"1", "0", "0">>>>, <<<<"x">>>>>> >>
    /\ ~call.ok
    /\ call.val = <<>>
    /\ call.error = [type |-> "ParseError",
                     error |-> [error |-> InvalidOpcode(<<"x">>), line |-> 3]]

\* C23: when no line of the program has a parse error and no instruction
\* whose mnemonic takes an address or is DAT fails to encode, assemble
\* succeeds, and each INP, OUT and OTC line gives 901, 902 and 922, whatever
\* operand follows the mnemonic.
C23_IoOperandIgnored ==
    (/\ call.fn = "assemble"
     /\ \A i \in 1..Len(call.args[1]) :
           /\ ~HasParseError(call.args[1][i])
           /\ ~FailsToEncode(call.args[1], call.args[1][i]))
      => LET lines == InstructionLines(call.args[1])
         IN  /\ call.ok
             /\ Len(call.val) = Len(lines)
             /\ \A i \in 1..Len(lines) :
                   /\ MnemonicOf(lines[i]) = INP => call.val[i] = 901
                   /\ MnemonicOf(lines[i]) = OUT => call.val[i] = 902
                   /\ MnemonicOf(lines[i]) = OTC => call.val[i] = 922

\* The Opcode that a mnemonic spells.
OpcodeNamed(mnemonic) ==
    CASE mnemonic = HLT -> "HLT"
      [] mnemonic = ADD -> "ADD"
      [] mnemonic = SUB -> "SUB"
      [] mnemonic = STA -> "STA"
      [] mnemonic = LDA -> "LDA"
      [] mnemonic = BRA -> "BRA"
      [] mnemonic = BRZ -> "BRZ"
      [] mnemonic = BRP -> "BRP"
      [] mnemonic = INP -> "INP"
      [] mnemonic = OUT -> "OUT"
      [] mnemonic = OTC -> "OTC"
      [] mnemonic = DAT -> "DAT"

\* The result of a line is an InvalidOpcode error.
IsInvalidOpcode(result) ==
    ~result.ok /\ result.error.error.type = "InvalidOpcode"

\* C24: for a line that is neither blank nor a comment, parse_assembly gives,
\* when the first token is a mnemonic, no InvalidOpcode error and, if the line
\* parses, an instruction with no label and the first token as opcode; when
\* the first token is not a mnemonic and the second is, no InvalidOpcode
\* error and, if the line parses, an instruction with the first token as
\* label and the second as opcode; when the first token is not a mnemonic
\* and there is no second token, InvalidOpcode with the first token; when
\* neither is a mnemonic, InvalidOpcode with the second token; the error has
\* the number of the line in the source, counted from 1.
C24_LabelOrOpcode ==
    call.fn = "parse_assembly" =>
        \A i \in 1..Len(call.args[1]) :
            LET parts == call.args[1][i]
                result == call.val[i]
            IN  IsInstructionLine(parts) =>
                  /\ parts[1] \in Mnemonics =>
                        /\ ~IsInvalidOpcode(result)
                        /\ result.ok =>
                              /\ result.val.type = "Instruction"
                              /\ result.val.label = None
                              /\ result.val.opcode = OpcodeNamed(parts[1])
                  /\ (/\ parts[1] \notin Mnemonics
                      /\ Len(parts) >= 2
                      /\ parts[2] \in Mnemonics) =>
                        /\ ~IsInvalidOpcode(result)
                        /\ result.ok =>
                              /\ result.val.type = "Instruction"
                              /\ result.val.label = Some(parts[1])
                              /\ result.val.opcode = OpcodeNamed(parts[2])
                  /\ (parts[1] \notin Mnemonics /\ Len(parts) = 1) =>
                        result = ParseError(InvalidOpcode(parts[1]), i)
                  /\ (/\ parts[1] \notin Mnemonics
                      /\ Len(parts) >= 2
                      /\ parts[2] \notin Mnemonics) =>
                        result = ParseError(InvalidOpcode(parts[2]), i)

\* The lines "x y", "x" and "a OUT" have been parsed: InvalidOpcode
\* with y on line 1 and with x on line 2, and OUT labelled a.
C24_Witness ==
    /\ call.fn = "parse_assembly"
    /\ call.args = << <<<<<<"x">>, <<"y">>>>, <<<<"x">>>>, <<<<"a">>, OUT>>>> >>
    /\ call.val[1] = ParseError(InvalidOpcode(<<"y">>), 1)
    /\ call.val[2] = ParseError(InvalidOpcode(<<"x">>), 2)
    /\ call.val[3] = Ok(Instruction(Some(<<"a">>), "OUT", None))

\* The number that a sequence of digit characters writes.
RECURSIVE NumberRead(_)
NumberRead(text) ==
    IF Len(text) = 0 THEN 0
    ELSE NumberRead(SubSeq(text, 1, Len(text) - 1)) * 10
            + (text[Len(text)] - DIGIT_ZERO)

\* The text is the decimal text of the integer n: a minus sign if n is
\* negative, then the digits of its magnitude with no leading zero.
IsDecimalText(text, n) ==
    LET body == IF n < 0 THEN Tail(text) ELSE text
    IN  /\ Len(text) > 0
        /\ n < 0 => text[1] = MINUS
        /\ Len(body) > 0
        /\ \A i \in 1..Len(body) : body[i] \in DIGIT_ZERO..(DIGIT_ZERO + 9)
        /\ Len(body) > 1 => body[1] # DIGIT_ZERO
        /\ NumberRead(body) = IF n < 0 THEN -n ELSE n

\* C25: the add program assembles to 901, 399, 901, 199, 902, 0; its dump
\* loaded and run with the scripted inputs a, b never panics, is still
\* running after fewer than 6 clock cycles, and has halted after exactly 6
\* with the output buffer holding the decimal text of a + b wrapped into
\* [-999, 999].
C25_AddProgramEndToEnd ==
    /\ call.fn = "assemble" =>
          /\ call.ok
          /\ call.val = <<901, 399, 901, 199, 902, 0>>
    /\ status # "panicked"
    /\ status = "running" => cycles < 6
    /\ status = "halted" =>
          /\ cycles = 6
          /\ IsDecimalText(buffer, Wrapped(script[1] + script[2]))

\* The run with inputs 3, -5 has halted with the output "-2".
C25_Witness ==
    /\ call.fn = "assemble"
    /\ script = <<3, -5>>
    /\ status = "halted"
    /\ cycles = 6
    /\ buffer = <<MINUS, DIGIT_ZERO + 2>>

\* C26: a clock cycle started with the program counter outside 0..99 panics
\* on the fetch: the run stops, and RAM, the accumulator and the output
\* buffer are what they were before the cycle. RAM has cells 0..99 only, and
\* the fetch is the only access that is ever outside them: a cycle panics
\* on an index only when the program counter is outside 0..99.
C26_FetchOutOfRamFaults ==
    [][/\ (IsCycle /\ ~in_bounds(program_counter)) =>
              /\ status' = "panicked"
              /\ fault' = "index out of bounds"
              /\ ram' = ram
              /\ accumulator' = accumulator
              /\ buffer' = buffer
       /\ DOMAIN ram' = 0..99
       /\ (IsCycle /\ fault' = "index out of bounds") =>
              ~in_bounds(program_counter)]_vars

\* The word at address 99 was a 9xx that does nothing, the program counter
\* went to 100, and the fetch there stopped the run.
C26_Witness ==
    /\ status = "panicked"
    /\ fault = "index out of bounds"
    /\ program_counter = 101
    /\ instruction_register = 9
    /\ address_register = 99
    /\ ram[99] = 999
    /\ accumulator = 999

\* C27: in every state reached by load_data_to_ram and clock cycles none of
\* which panicked, instruction_register is in 0..9 and address_register is
\* in 0..99.
C27_RegistersInRange ==
    status \in {"running", "halted"} =>
        /\ instruction_register \in 0..9
        /\ address_register \in 0..99

\* C28: RAM has 100 cells after every step; a clock cycle changes RAM only
\* if the word it fetches is 3xx (STA), and then no cell but xx; a cycle that
\* fetches any other word, or panics, leaves every cell as it was.
C28_OnlyStaWritesRam ==
    [][/\ DOMAIN ram' = 0..99
       /\ IsCycle =>
              /\ ram' # ram =>
                     /\ Fetches
                     /\ first_digit(Fetched) = 3
              /\ (Fetches /\ first_digit(Fetched) = 3) =>
                     \A a \in (0..99) \ {last_two_digits(Fetched)} :
                         ram'[a] = ram[a]
              /\ status' = "panicked" => ram' = ram]_vars

\* STA 99 has just stored the input 999 in cell 99, which held 0.
C28_Witness ==
    /\ status = "running"
    /\ cycles = 2
    /\ instruction_register = 3
    /\ address_register = 99
    /\ accumulator = 999
    /\ ram[99] = 999

\* The sequence s is a prefix of the sequence t.
IsPrefix(s, t) == Len(s) <= Len(t) /\ SubSeq(t, 1, Len(s)) = s

\* C29: across an iteration of run()'s loop (print_on_one_line, which splits
\* the buffer into lines, then a clock cycle) the output buffer before is a
\* prefix of the buffer after, and the buffer is longer only if the word
\* fetched is 902 (OUT) or 922 (OTC); read_all returns the buffer and leaves
\* it as it was, and so does every step that is not a clock cycle.
C29_BufferAppendOnly ==
    [][/\ IsCycle =>
              /\ IsPrefix(buffer, buffer')
              /\ buffer' # buffer =>
                     /\ Fetches
                     /\ Fetched \in {902, 922}
       /\ (call'.fn = "read_all" /\ call.fn # "read_all") =>
              /\ call'.val = buffer
              /\ buffer' = buffer
       /\ ~IsCycle => buffer' = buffer]_vars

\* INP, OUT, OUT with the input -1: the third iteration printed the row "-1"
\* and its OUT put a line feed and "-1" after what the buffer held.
C29_Witness ==
    /\ cycles = 3
    /\ call.fn = "print_on_one_line"
    /\ call.val = <<<<MINUS, DIGIT_ZERO + 1>>>>
    /\ buffer = <<MINUS, DIGIT_ZERO + 1, LINE_FEED, MINUS, DIGIT_ZERO + 1>>

\* C30: a clock cycle is executed only while the run has not stopped, one at
\* a time; after a cycle the run goes on exactly when the cycle neither
\* fetched a HLT (a word in -99..99) nor panicked; once the run has stopped
\* on a HLT or a panic, no register, RAM cell, output character or input
\* element changes, whatever is done next; a cycle started with BRA 0 at
\* address 0 and the program counter at 0 leaves the run going in the same
\* state, so that run never stops.
C30_RunStopsOnce ==
    [][/\ cycles' # cycles =>
              /\ status = "running"
              /\ cycles' = cycles + 1
       /\ IsCycle =>
              /\ status' = "panicked" <=> fault' # ""
              /\ status' = "halted" <=>
                     (Fetches /\ first_digit(Fetched) = 0)
              /\ status' \in {"running", "halted", "panicked"}
       /\ status \in {"halted", "panicked"} =>
              /\ status' = status
              /\ UNCHANGED <<ram, program_counter, instruction_register,
                             address_register, accumulator, buffer, input,
                             fault, cycles>>
       /\ (IsCycle /\ program_counter = 0 /\ ram[0] = 600) =>
              /\ status' = "running"
              /\ UNCHANGED <<ram, program_counter, accumulator, buffer,
                             input>>]_vars

\* INP, OUT, HLT with the input -1 has halted after three cycles, and the
\* output has then been read: "-1".
C30_Witness ==
    /\ status = "halted"
    /\ cycles = 3
    /\ inp_count = 1
    /\ call.fn = "read_all"
    /\ call.val = <<MINUS, DIGIT_ZERO + 1>>

\* The address that the operand of the line writes.
AddressOf(parts) == CHOOSE address \in 0..99 : AddressToken(address) = parts[2]

\* What the step does is the effect of the mnemonic on the address: ADD and
\* SUB wrap the sum and the difference of the accumulator and the cell into
\* [-999, 999], STA stores the accumulator in the cell, LDA loads the cell,
\* BRA branches, BRZ and BRP branch on a zero and on a non-negative
\* accumulator; nothing else changes and the next instruction follows.
EffectOf(mnemonic, address) ==
    LET next == program_counter + 1
        keeps_ram == ram' = ram
        keeps_accumulator == accumulator' = accumulator
    IN  /\ buffer' = buffer
        /\ input' = input
        /\ status' = "running"
        /\ CASE mnemonic = ADD ->
                    /\ accumulator' = Wrapped(accumulator + ram[address])
                    /\ keeps_ram /\ program_counter' = next
              [] mnemonic = SUB ->
                    /\ accumulator' = Wrapped(accumulator - ram[address])
                    /\ keeps_ram /\ program_counter' = next
              [] mnemonic = STA ->
                    /\ ram' = [ram EXCEPT ![address] = accumulator]
                    /\ keeps_accumulator /\ program_counter' = next
              [] mnemonic = LDA ->
                    /\ accumulator' = ram[address]
                    /\ keeps_ram /\ program_counter' = next
              [] mnemonic = BRA ->
                    /\ program_counter' = address
                    /\ keeps_ram /\ keeps_accumulator
              [] mnemonic = BRZ ->
                    /\ program_counter' =
                          (IF accumulator = 0 THEN address ELSE next)
                    /\ keeps_ram /\ keeps_accumulator
              [] mnemonic = BRP ->
                    /\ program_counter' =
                          (IF accumulator >= 0 THEN address ELSE next)
                    /\ keeps_ram /\ keeps_accumulator

\* C31: the clock cycle that fetches the word assembled from the line M a,
\* M one of ADD, SUB, STA, LDA, BRA, BRZ, BRP and a in 0..99, sets
\* instruction_register to the opcode digit of M and address_register to a
\* and has the effect of M on address a; the cycle that fetches the word
\* assembled from INP takes the next scripted input into the accumulator,
\* from OUT appends the decimal text of the accumulator to the output, from
\* OTC appends one character, from HLT halts the run.
C31_AssemblerEngineAgree ==
    [][(IsCycle /\ cycles = 1 /\ call.fn = "assemble") =>
          LET line == call.args[1][2]
              mnemonic == line[1]
          IN  /\ fault' = ""
              /\ mnemonic \in AddressMnemonics =>
                    /\ instruction_register' = OpcodeDigit(mnemonic)
                    /\ address_register' = AddressOf(line)
                    /\ EffectOf(mnemonic, AddressOf(line))
              /\ mnemonic = INP =>
                    /\ status' = "running"
                    /\ accumulator' = script[2]
                    /\ input' = Tail(input)
                    /\ buffer' = buffer
              /\ mnemonic = OUT =>
                    /\ status' = "running"
                    /\ IsDecimalText(buffer', accumulator)
                    /\ accumulator' = accumulator
              /\ mnemonic = OTC =>
                    /\ status' = "running"
                    /\ Len(buffer') = 1
                    /\ buffer'[1] % 256 = accumulator % 256
                    /\ accumulator' = accumulator
              /\ mnemonic = HLT =>
                    /\ status' = "halted"
                    /\ accumulator' = accumulator
                    /\ buffer' = buffer]_vars

\* INP, SUB 2, DAT -5 with the input -1: the second cycle decoded opcode 2
\* and address 2 and left -1 - (-5) = 4 in the accumulator.
C31_Witness ==
    /\ call.fn = "assemble"
    /\ call.args[1][2] = <<SUB, <<"2">>>>
    /\ call.val = <<901, 202, -5>>
    /\ cycles = 2
    /\ instruction_register = 2
    /\ address_register = 2
    /\ accumulator = 4

IsDefined(lines, label) ==
    \E i \in 1..Len(lines) : CarriesLabel(lines[i], label)

\* The index, counted from 0, of the last instruction line that carries the
\* label.
LastIndexOf(lines, label) ==
    (CHOOSE i \in 1..Len(lines) :
        /\ CarriesLabel(lines[i], label)
        /\ \A j \in (i + 1)..Len(lines) : ~CarriesLabel(lines[j], label)) - 1

\* The operand of the line resolves: it is a number, or a label that an
\* instruction line carries; and the number it resolves to.
Resolves(lines, parts) ==
    \/ HasLiteral(parts)
    \/ HasLabelOperand(parts) /\ IsDefined(lines, OperandOf(parts))
Resolved(lines, parts) ==
    IF HasLiteral(parts) THEN parse_i16(OperandOf(parts)).val
    ELSE LastIndexOf(lines, OperandOf(parts))

\* C33: when no line has a parse error and the operand of an instruction
\* with ADD, SUB, STA, LDA, BRA, BRZ or BRP resolves, from a number or from
\* the index of a label, to a number outside 0..99, assemble returns a
\* MachineCodeError and no machine code; when no line has a parse error, no
\* operand is an undefined label and no such operand is outside 0..99,
\* assemble succeeds and every DAT whose operand resolves gives the number
\* it resolves to.
C33_AddressOutOfRange ==
    (/\ call.fn = "assemble"
     /\ \A i \in 1..Len(call.args[1]) : ~HasParseError(call.args[1][i]))
      => LET lines == InstructionLines(call.args[1])
             outside == {i \in 1..Len(lines) :
                            /\ MnemonicOf(lines[i]) \in AddressMnemonics
                            /\ Resolves(lines, lines[i])
                            /\ Resolved(lines, lines[i]) \notin 0..99}
             undefined == {i \in 1..Len(lines) :
                              /\ HasLabelOperand(lines[i])
                              /\ ~IsDefined(lines, OperandOf(lines[i]))}
         IN  /\ outside # {} =>
                   /\ ~call.ok
                   /\ call.val = <<>>
                   /\ call.error.type = "MachineCodeError"
             /\ (outside = {} /\ undefined = {}) =>
                   /\ call.ok
                   /\ \A i \in 1..Len(lines) :
                         (/\ MnemonicOf(lines[i]) = DAT
                          /\ Resolves(lines, lines[i])
                          /\ InValueRange(Resolved(lines, lines[i])))
                           => call.val[i] = Resolved(lines, lines[i])

\* A hundred HLT lines, the line labelled x, then BRA x: x is at index 100
\* and the assembly fails on the branch.
C33_Witness ==
    /\ call.fn = "assemble"
    /\ Len(call.args[1]) = 102
    /\ call.args[1][102] = <<BRA, <<"x">>>>
    /\ ~call.ok
    /\ call.error = [type |-> "MachineCodeError",
                     error |-> "Last two digits out of range"]

\* C34: after load_data_to_ram, for every complete byte pair within the
\* first 200 bytes: if the call returned, the cell of the pair holds the
\* pair's signed big-endian word; and if that word is outside [-999, 999],
\* the call did not return (the pair was rejected).
C34_LoadStoresWordOrRejects ==
    call.fn = "load_data_to_ram" =>
        LET data == call.args[1]
            pairs == IF Len(data) < RAM_LEN * 2 THEN Len(data) \div 2
                     ELSE RAM_LEN
        IN  \A k \in 1..pairs :
                /\ status = "running" => ram[k - 1] = WordAt(data, k)
                /\ ~InValueRange(WordAt(data, k)) => status = "panicked"

\* C35: for every i16 v, in either build, wrap_overflow(v) returns, without
\* a panic, a value in [-999, 999].
C35_WrapOverflowTotal ==
    call.fn = "wrap_overflow" =>
        /\ call.panic = ""
        /\ InValueRange(call.val)

\* C36: a clock cycle that fetches a word in [-99, 99] halts the run, without
\* a panic, and leaves RAM, the accumulator and the output buffer as they
\* were; a cycle that fetches any other word does not halt it.
C36_SmallWordsHalt ==
    [][Fetches =>
          /\ (Fetched >= -99 /\ Fetched <= 99) =>
                /\ status' = "halted"
                /\ fault' = ""
                /\ ram' = ram
                /\ accumulator' = accumulator
                /\ buffer' = buffer
          /\ (Fetched < -99 \/ Fetched > 99) => status' # "halted"]_vars

\* OUT, then the data word -5 at address 1: the second cycle fetched -5 and
\* halted, the output "0" in place.
C36_Witness ==
    /\ status = "halted"
    /\ cycles = 2
    /\ ram[1] = -5
    /\ program_counter = 2
    /\ instruction_register = 0
    /\ buffer = <<DIGIT_ZERO>>

\* C37: for Values a and b, in either build, a += b and then a -= b, and
\* a -= b and then a += b, do not panic and leave a as it was; after a += b
\* alone a is in [-999, 999] and differs from a + b by a multiple of 1999,
\* and after a -= b alone, from a - b.
C37_AddSubInverse ==
    /\ call.fn = "add_then_sub" =>
          /\ call.panic = ""
          /\ call.val = call.args[1]
          /\ InValueRange(call.first)
          /\ (call.first - (call.args[1] + call.args[2])) % 1999 = 0
    /\ call.fn = "sub_then_add" =>
          /\ call.panic = ""
          /\ call.val = call.args[1]
          /\ InValueRange(call.first)
          /\ (call.first - (call.args[1] - call.args[2])) % 1999 = 0

\* 999 += 999 gave -1, and -1 -= 999 gave 999 back.
C37_Witness ==
    /\ call.fn = "add_then_sub"
    /\ call.args = <<999, 999>>
    /\ call.first = -1
    /\ call.val = 999

\* The label is carried by more than one instruction line.
IsDuplicated(lines, label) ==
    \E i, j \in 1..Len(lines) :
        i # j /\ CarriesLabel(lines[i], label) /\ CarriesLabel(lines[j], label)

\* C38: a program with a label on more than one instruction line, and no
\* other defect (no parse error, no undefined label, no address outside
\* 0..99), assembles; an operand that names such a label resolves to the
\* index of the last instruction line that carries it: that index is the
\* address of the Value emitted for ADD, SUB, STA, LDA, BRA, BRZ and BRP,
\* and the Value itself for DAT.
C38_LastLabelWins ==
    (/\ call.fn = "assemble"
     /\ \A i \in 1..Len(call.args[1]) : ~HasParseError(call.args[1][i]))
      => LET lines == InstructionLines(call.args[1])
             defects == {i \in 1..Len(lines) :
                            \/ /\ HasLabelOperand(lines[i])
                               /\ ~IsDefined(lines, OperandOf(lines[i]))
                            \/ /\ MnemonicOf(lines[i]) \in AddressMnemonics
                               /\ Resolves(lines, lines[i])
                               /\ Resolved(lines, lines[i]) \notin 0..99}
             duplicated == \E i \in 1..Len(lines) :
                              IsDuplicated(lines, lines[i][1])
         IN  (duplicated /\ defects = {}) =>
                /\ call.ok
                /\ \A i \in 1..Len(lines) :
                      (/\ HasLabelOperand(lines[i])
                       /\ IsDuplicated(lines, OperandOf(lines[i])))
                        => LET index == LastIndexOf(lines, OperandOf(lines[i]))
                           IN  /\ MnemonicOf(lines[i]) \in AddressMnemonics =>
                                     call.val[i] =
                                         OpcodeDigit(MnemonicOf(lines[i])) * 100
                                             + index
                               /\ MnemonicOf(lines[i]) = DAT =>
                                     call.val[i] = index

\* a DAT 5, a OUT, LDA a: the load is from address 1, the second line
\* labelled a.
C38_Witness ==
    /\ call.fn = "assemble"
    /\ call.args = << <<<<<<"a">>, DAT, <<"5">>>>, <<<<"a">>, OUT>>,
                        <<LDA, <<"a">>>>>> >>
    /\ call.ok
    /\ call.val = <<5, 902, 501>>

\* C39: a clock cycle that fetches OTC (922) with the accumulator outside
\* 0..255 does not panic and the run goes on; the output buffer is what it
\* was with one character more, whose code is the number in 0..255 that
\* differs from the accumulator by a multiple of 256; the accumulator is
\* unchanged.
C39_OtcOutsideByteRange ==
    [][(Fetches /\ Fetched = 922 /\ accumulator \notin 0..255) =>
          /\ status' = "running"
          /\ fault' = ""
          /\ Len(buffer') = Len(buffer) + 1
          /\ SubSeq(buffer', 1, Len(buffer)) = buffer
          /\ buffer'[Len(buffer')] \in 0..255
          /\ (buffer'[Len(buffer')] - accumulator) % 256 = 0
          /\ accumulator' = accumulator]_vars

\* OTC has just been executed with 321 in the accumulator, after 319 and
\* 320: the characters are 63, 64 and 65 (321 - 256).
C39_Witness ==
    /\ status = "running"
    /\ instruction_register = 9
    /\ address_register = 22
    /\ accumulator = 321
    /\ buffer = <<63, 64, 65>>

============================================================================
